---- MODULE Spec2Model ----
(***************************************************************************)
(* mojxml-rs: the conversion pipeline of src/processor.rs (process_files), *)
(* the FlatGeobuf writer of src/writer.rs and the document parser of       *)
(* src/parse.rs, as a state machine.                                       *)
(*                                                                         *)
(* Japanese element names of the source are romanised, since the module    *)
(* is plain ASCII: chizumei, shikuchoson_code, shikuchoson_mei, zahyokei,  *)
(* sokuchikei_hanbetsu, kukan_zokusei, shudai_zokusei, fude, keijo,        *)
(* chiban, chikugai, betsuzu, ninni_zahyokei.                              *)
(***************************************************************************)
EXTENDS Naturals, Integers, Sequences, FiniteSets, TLC

(***************************************************************************)
(* Bounds of the model.                                                    *)
(***************************************************************************)
\* num_cpus::get() of the machine the run is on
Concurrency == 1
\* length of src_files
MaxPaths == 2
\* items (documents or read errors) one input path yields
MaxItems == 2
\* documents read in one run without outline output
MaxDocs == 4
\* documents read in one run with outline output
MaxOutlineDocs == 3

Max(a, b) == IF a >= b THEN a ELSE b

\* processor.rs:81   0..max(1, concurrency / 4)
ArchiveWorkers == Max(1, Concurrency \div 4)
\* processor.rs:122  0..max(2, concurrency - 1)
ParseWorkers == Max(2, Concurrency - 1)
\* processor.rs:41   bounded::<FileData>(concurrency)
ParserCap == Concurrency
\* processor.rs:48   bounded::<Arc<ParsedXML>>(1)
WriterCap == 1
\* processor.rs:57   bounded::<Arc<ParsedXML>>(1)
OutlineCap == 1

ZipIds == 1..ArchiveWorkers
XmlIds == 1..ParseWorkers
Zip(i) == <<"zip", i>>
Xml(j) == <<"xml", j>>
ZipThreads == {Zip(i) : i \in ZipIds}
XmlThreads == {Xml(j) : j \in XmlIds}
Writers == {"fgb", "outline"}
FeederT == <<"feeder", 0>>
W(w) == <<w, 0>>
Threads == {FeederT} \cup ZipThreads \cup XmlThreads \cup {W(w) : w \in Writers}

VARIABLES
    calculate_xml_outline, \* processor.rs:56  outline_output_path.is_some()
    options,               \* parse_options
    pc,                    \* where each spawned thread is
    sent,                  \* feeder: paths of src_files pushed so far
    xmlq,                  \* the unbounded channel of paths (xml_tx, xml_rx)
    zidx,                  \* archive worker: items its iterator has yielded
    zdoc,                  \* archive worker: the document it is sending
    xml_files,             \* the AtomicUsize counter
    parserq,               \* bounded channel of documents (parser_tx, parser_rx)
    held,                  \* parse worker: the ParsedXML it is sending
    writerq,               \* bounded(1) channel to the writer
    outlineq,              \* bounded(1) channel to the outline writer
    has_features,          \* FGBWriter.has_features, per writer
    wlog,                  \* history, per writer and document: what each call of
                           \* add_features for it appended
    file,                  \* per writer: the output file exists
    flushed,               \* per writer: what each call of flush returned
    mpc,                   \* process_files itself: joining, returned, panicked
    ret,                   \* the value process_files returned
    parseRes,              \* history: what parse_xml_content returned per document
    dropped,               \* history: documents discarded without being written
    pb,                    \* the progress bars: length and position of each
    rd,                    \* an archive worker on its own: paths, iterator, results
    pp                     \* parse_xml_content on its own: document, options, result

\* the variables of the pipeline
pvars == <<calculate_xml_outline, options, pc, sent, xmlq, zidx, zdoc, xml_files,
           parserq, held, writerq, outlineq, has_features, wlog, file, flushed,
           mpc, ret, parseRes, dropped, pb>>

vars == <<pvars, rd, pp>>

NoDoc == 0
NoParsed == [id |-> 0, n |-> 0]
\* in parseRes: the document has not been parsed
NotParsed == [tag |-> "none", n |-> 0]
\* in wlog: one call of add_features, n records offered and the first k appended
Appended(n, k) == [n |-> n, k |-> k]
\* in wlog: the outline of the document could not be computed, nothing was offered
Skipped == Appended(0, 0)

(***************************************************************************)
(* Documents.  An Option is a sequence of length 0 (None) or 1 (Some); an  *)
(* element that may be absent is an Option, and so is its text().  Text is *)
(* a sequence of characters; identifiers and names are atoms.              *)
(***************************************************************************)
None == <<>>
Some(v) == <<v>>
IsSome(o) == Len(o) = 1
Get(o) == o[1]

\* Result<T>: the value, the Error, or the panic the call ends in
Ok(v) == [tag |-> "ok", val |-> v, err |-> "", arg |-> ""]
Err(kind, arg) == [tag |-> "err", val |-> <<>>, err |-> kind, arg |-> arg]
Panic(msg) == [tag |-> "panic", val |-> <<>>, err |-> "panic", arg |-> msg]
IsOk(r) == r.tag = "ok"
\* the `?` operator: what an Err or a panic of an inner call becomes in the caller
Fail(r) == [tag |-> r.tag, val |-> <<>>, err |-> r.err, arg |-> r.arg]

Digits == <<"0", "1", "2", "3", "4", "5", "6", "7", "8", "9">>
IsDigit(c) == \E d \in 1..10 : Digits[d] = c
DigitValue(c) == (CHOOSE d \in 1..10 : Digits[d] = c) - 1

\* u32::MAX, 4294967295.  A u32 is kept as its decimal digits without leading
\* zeros: a u32 does not fit the integers the model computes with
U32MaxDigits == <<"4", "2", "9", "4", "9", "6", "7", "2", "9", "5">>

RECURSIVE StripZeros(_)
StripZeros(t) == IF Len(t) > 1 /\ t[1] = "0" THEN StripZeros(Tail(t)) ELSE t

\* a <= b for two digit sequences of the same length
RECURSIVE DigitsLeq(_, _)
DigitsLeq(a, b) ==
    IF a = <<>> THEN TRUE
    ELSE IF DigitValue(a[1]) # DigitValue(b[1]) THEN DigitValue(a[1]) < DigitValue(b[1])
    ELSE DigitsLeq(Tail(a), Tail(b))

FitsU32(digits) ==
    \/ Len(digits) < Len(U32MaxDigits)
    \/ Len(digits) = Len(U32MaxDigits) /\ DigitsLeq(digits, U32MaxDigits)

\* str::parse::<u32>(): an optional "+", then one or more digits, at most u32::MAX
parse_u32(t) ==
    LET body == IF t # <<>> /\ t[1] = "+" THEN Tail(t) ELSE t IN
    IF body # <<>> /\ (\A k \in 1..Len(body) : IsDigit(body[k]))
                   /\ FitsU32(StripZeros(body))
    THEN Some(StripZeros(body))
    ELSE None

\* constants.rs:4-82  PROJ_STRS: "WGS84" and the nineteen plane rectangular systems
PROJ_STRS ==
    <<"WGS84",
      "kokyo_zahyo_1_kei", "kokyo_zahyo_2_kei", "kokyo_zahyo_3_kei",
      "kokyo_zahyo_4_kei", "kokyo_zahyo_5_kei", "kokyo_zahyo_6_kei",
      "kokyo_zahyo_7_kei", "kokyo_zahyo_8_kei", "kokyo_zahyo_9_kei",
      "kokyo_zahyo_10_kei", "kokyo_zahyo_11_kei", "kokyo_zahyo_12_kei",
      "kokyo_zahyo_13_kei", "kokyo_zahyo_14_kei", "kokyo_zahyo_15_kei",
      "kokyo_zahyo_16_kei", "kokyo_zahyo_17_kei", "kokyo_zahyo_18_kei",
      "kokyo_zahyo_19_kei">>

\* faulty variant: the arbitrary system is given a projection
get_proj_projected(name) == Ok(Some(1))

\* constants.rs:84-96  get_proj: Ok(None) for the arbitrary system, Ok(Some(index
\* in PROJ_STRS)) for a name of the table, Err(UnsupportedCrs(name)) otherwise
get_proj(name) ==
    IF name = "ninni_zahyokei" THEN Ok(None)
    ELSE IF \E k \in 1..Len(PROJ_STRS) : PROJ_STRS[k] = name
         THEN Ok(Some(CHOOSE k \in 1..Len(PROJ_STRS) : PROJ_STRS[k] = name))
         ELSE Err("UnsupportedCrs", name)

\* parse.rs:92-96  get_child_element, followed by .text().ok_or_else(MissingElement)
child_text(elem, name) ==
    IF ~IsSome(elem) THEN Err("MissingElement", name)
    ELSE IF ~IsSome(Get(elem)) THEN Err("MissingElement", name)
    ELSE Ok(Get(Get(elem)))

\* parse.rs:419-442  parse_common_properties
parse_common_properties(root) ==
    LET map_name == child_text(root.chizumei, "chizumei")
        city_code == child_text(root.shikuchoson_code, "shikuchoson_code")
        city_name == child_text(root.shikuchoson_mei, "shikuchoson_mei")
        crs == child_text(root.zahyokei, "zahyokei")
        crs_det_elem == root.sokuchikei_hanbetsu
    IN  IF ~IsOk(map_name) THEN Fail(map_name)
        ELSE IF ~IsOk(city_code) THEN Fail(city_code)
        ELSE IF ~IsOk(city_name) THEN Fail(city_name)
        ELSE IF ~IsOk(crs) THEN Fail(crs)
        \* :433  crs_det_elem.map(|e| e.text().unwrap().to_string())
        ELSE IF IsSome(crs_det_elem) /\ ~IsSome(Get(crs_det_elem))
             THEN Panic("called Option::unwrap() on a None value")
        \* :437  city_code.parse()?
        ELSE IF ~IsSome(parse_u32(city_code.val))
             THEN Err("ParseInt", "shikuchoson_code")
        ELSE Ok([chizumei |-> map_name.val,
                 shikuchoson_code |-> Get(parse_u32(city_code.val)),
                 shikuchoson_mei |-> city_name.val,
                 zahyokei |-> crs.val,
                 sokuchikei_hanbetsu |->
                     IF IsSome(crs_det_elem) THEN Some(Get(Get(crs_det_elem)))
                     ELSE None])

\* HashMap<String, V>: insert overwrites (last write wins), get is by key
EmptyMap == [k \in {} |-> 0]
Insert(m, k, v) == [j \in DOMAIN m \cup {k} |-> IF j = k THEN v ELSE m[j]]
Lookup(m, k) == IF k \in DOMAIN m THEN Some(m[k]) ELSE None

Pt(x, y) == [x |-> x, y |-> y]

\* faulty variant: the error does not say which id is missing
PointNotFound_anonymous(id) == Err("PointNotFound", "")

\* error.rs  Error::PointNotFound(id.to_string())
PointNotFound(id) == Err("PointNotFound", id)

\* str::parse::<f64>() of a coordinate text: the text is kept as the number it
\* denotes, or as not a number
parse_f64(t) == IF t.ok THEN Some(t.v) ELSE None
Num(v) == [ok |-> TRUE, v |-> v]
NaNText == [ok |-> FALSE, v |-> 0]

\* parse.rs:105-132  one GM_Point of parse_points.  X and Y are
\* Option<Option<text>>: the element, then its text(), "0" when it has none
parse_point(point) ==
    LET coord(e) == IF IsSome(Get(e)) THEN parse_f64(Get(Get(e))) ELSE Some(0) IN
    IF ~IsSome(point.pos) THEN Err("MissingElement", "pos")
    ELSE LET pos == Get(point.pos) IN
         IF IsSome(pos.x) /\ ~IsSome(coord(pos.x)) THEN Err("ParseFloat", "X")
         ELSE IF IsSome(pos.y) /\ ~IsSome(coord(pos.y)) THEN Err("ParseFloat", "Y")
         ELSE IF ~IsSome(pos.x) THEN Err("MissingElement", "X")
         ELSE IF ~IsSome(pos.y) THEN Err("MissingElement", "Y")
         ELSE IF ~IsSome(point.id) THEN Err("MissingAttribute", "GM_Point.id")
         ELSE Ok([id |-> Get(point.id),
                  pos |-> Pt(Get(coord(pos.x)), Get(coord(pos.y)))])

\* parse.rs:99-134  parse_points
RECURSIVE parse_points_from(_, _)
parse_points_from(decls, points) ==
    IF decls = <<>> THEN Ok(points)
    ELSE LET r == parse_point(Head(decls)) IN
         IF ~IsOk(r) THEN Fail(r)
         ELSE parse_points_from(Tail(decls), Insert(points, r.val.id, r.val.pos))

parse_points(spatial_element) == parse_points_from(spatial_element.points, EmptyMap)

\* parse.rs:188-201  X or Y of a GM_Position.direct: the element, its text, the number
direct_coord(e, name) ==
    IF ~IsSome(e) THEN Err("MissingElement", name)
    ELSE IF ~IsSome(Get(e)) THEN Err("MissingElement", name)
    ELSE IF ~IsSome(parse_f64(Get(Get(e)))) THEN Err("ParseFloat", name)
    ELSE Ok(Get(parse_f64(Get(Get(e)))))

\* parse.rs:146-208  one GM_Curve of parse_curves
parse_curve(curve, points) ==
    IF ~IsSome(curve.id) THEN Err("MissingAttribute", "GM_Curve.id")
    ELSE IF ~curve.segment THEN Err("MissingElement", "GM_Curve.segment")
    ELSE IF ~curve.column THEN Err("MissingElement", "GM_PointArray.column")
    ELSE IF ~IsSome(curve.pos) THEN Err("MissingElement", "GM_Position.*")
    ELSE LET pos == Get(curve.pos)
             xy == IF pos.name = "GM_Position.indirect"
                   THEN IF ~IsSome(pos.ref) THEN Err("MissingElement", "GM_Position.indirect")
                        ELSE IF ~IsSome(Get(pos.ref))
                             THEN Err("MissingAttribute", "GM_Position.indirect.idref")
                        ELSE IF ~IsSome(Lookup(points, Get(Get(pos.ref))))
                             THEN PointNotFound(Get(Get(pos.ref)))
                        ELSE Ok(Get(Lookup(points, Get(Get(pos.ref)))))
                   ELSE IF pos.name = "GM_Position.direct"
                   THEN LET x == direct_coord(pos.x, "X")
                            y == direct_coord(pos.y, "Y")
                        IN  IF ~IsOk(x) THEN Fail(x)
                            ELSE IF ~IsOk(y) THEN Fail(y)
                            ELSE Ok(Pt(x.val, y.val))
                   ELSE Err("UnexpectedElement", pos.name)
         IN  IF ~IsOk(xy) THEN Fail(xy)
             \* :207  Curve::new(y, x): the axes are swapped
             ELSE Ok([id |-> Get(curve.id), pos |-> Pt(xy.val.y, xy.val.x)])

\* parse.rs:136-212  parse_curves
RECURSIVE parse_curves_from(_, _, _)
parse_curves_from(decls, points, curves) ==
    IF decls = <<>> THEN Ok(curves)
    ELSE LET r == parse_curve(Head(decls), points) IN
         IF ~IsOk(r) THEN Fail(r)
         ELSE parse_curves_from(Tail(decls), points, Insert(curves, r.val.id, r.val.pos))

parse_curves(spatial_element, points) ==
    parse_curves_from(spatial_element.curves, points, EmptyMap)

\* proj4rs::transform::transform of one coordinate from the plane rectangular
\* system `source_crs` (its index in PROJ_STRS) to WGS84, in radians.  The
\* library is outside the repository: it is kept as a map that moves every
\* coordinate and fails outside the range the projection is defined on.
ProjRange == 8
proj_transform(source_crs, p) ==
    IF p.x > ProjRange \/ p.y > ProjRange THEN None
    ELSE Some(Pt(p.x + source_crs, p.y + 1))

\* f64::to_degrees, on the integers of the model
to_degrees(v) == 57 * v

\* faulty variant: the curves are handed on as they were read
transform_curves_crs_none(curves, source_crs) == Ok(curves)

\* parse.rs:214-229  transform_curves_crs: every curve, in place
transform_curves_crs(curves, source_crs) ==
    IF \E c \in DOMAIN curves : ~IsSome(proj_transform(source_crs, curves[c]))
    THEN Err("Projection", "transform")
    ELSE Ok([c \in DOMAIN curves |->
                LET point == Get(proj_transform(source_crs, curves[c]))
                IN  Pt(to_degrees(point.x), to_degrees(point.y))])

\* faulty variant: the new element goes to the front
push_front(vec, v) == <<v>> \o vec

\* Vec::push
push(vec, v) == Append(vec, v)

\* parse.rs:273-290, :303-320  the curve references of a ring, dereferenced in order
RECURSIVE ring_from(_, _, _)
ring_from(refs, curves, ring) ==
    IF refs = <<>> THEN Ok(ring)
    ELSE LET cc == Head(refs) IN
         IF ~IsSome(cc) THEN Err("MissingAttribute", "idref")
         ELSE IF ~IsSome(Lookup(curves, Get(cc))) THEN PointNotFound(Get(cc))
         ELSE ring_from(Tail(refs), curves, push(ring, Get(Lookup(curves, Get(cc)))))

\* parse.rs:294-322  one ring per child element of every GM_SurfaceBoundary.interior
RECURSIVE interior_rings_from(_, _, _)
interior_rings_from(children, curves, rings) ==
    IF children = <<>> THEN Ok(rings)
    ELSE LET r == ring_from(Head(children), curves, <<>>) IN
         IF ~IsOk(r) THEN Fail(r)
         ELSE interior_rings_from(Tail(children), curves, push(rings, r.val))

\* faulty variant: only the first child element of every interior boundary
RECURSIVE first_children(_)
first_children(ss) ==
    IF ss = <<>> THEN <<>>
    ELSE (IF Head(ss) = <<>> THEN <<>> ELSE <<Head(Head(ss))>>) \o first_children(Tail(ss))

\* Iterator::flat_map(..).collect(): the child elements of all the boundaries
RECURSIVE Flatten(_)
Flatten(ss) == IF ss = <<>> THEN <<>> ELSE Head(ss) \o Flatten(Tail(ss))

\* geo_types::Polygon::new closes every ring that is not closed
close(ring) ==
    IF ring # <<>> /\ ring[1] # ring[Len(ring)] THEN Append(ring, ring[1]) ELSE ring

\* parse.rs:241-327  one GM_Surface of parse_surfaces.  polygons are the
\* GM_Polygon children of all its patches; only the first is used
parse_surface(surface, curves) ==
    IF surface.polygons = <<>> THEN Err("MissingElement", "GM_Surface.patch")
    ELSE IF ~IsSome(surface.id) THEN Err("MissingAttribute", "GM_Surface.id")
    ELSE LET polygon == surface.polygons[1] IN
         IF ~IsSome(polygon.exterior)
         THEN Err("MissingElement", "GM_SurfaceBoundary.exterior")
         ELSE LET ext == ring_from(Get(polygon.exterior), curves, <<>>) IN
              IF ~IsOk(ext) THEN Fail(ext)
              ELSE LET ints == interior_rings_from(Flatten(polygon.interiors), curves, <<>>) IN
                   IF ~IsOk(ints) THEN Fail(ints)
                   ELSE Ok([id |-> Get(surface.id),
                            geom |-> [exterior |-> close(ext.val),
                                      interiors |-> [k \in 1..Len(ints.val) |->
                                                        close(ints.val[k])]]])

\* parse.rs:231-331  parse_surfaces
RECURSIVE parse_surfaces_from(_, _, _)
parse_surfaces_from(decls, curves, surfaces) ==
    IF decls = <<>> THEN Ok(surfaces)
    ELSE LET r == parse_surface(Head(decls), curves) IN
         IF ~IsOk(r) THEN Fail(r)
         ELSE parse_surfaces_from(Tail(decls), curves,
                                  Insert(surfaces, r.val.id, r.val.geom))

parse_surfaces(spatial_element, curves) ==
    parse_surfaces_from(spatial_element.surfaces, curves, EmptyMap)

\* twice the signed area of the triangle a b c
Area2(a, b, c) == (b.x - a.x) * (c.y - a.y) - (b.y - a.y) * (c.x - a.x)
Abs(v) == IF v < 0 THEN 0 - v ELSE v

\* geo's TriangulateEarcut::earcut_triangles, outside the repository: kept as
\* the triangles the exterior ring's vertices span, none for a ring with fewer
\* than three vertices or with all vertices on one line
earcut_triangles(polygon) ==
    LET ring == polygon.exterior IN
    {t \in (1..Len(ring)) \X (1..Len(ring)) \X (1..Len(ring)) :
        t[1] < t[2] /\ t[2] < t[3] /\ Area2(ring[t[1]], ring[t[2]], ring[t[3]]) # 0}

\* geo.rs:3-28  point_on_surface of the one polygon parse_surfaces builds:
\* the centroid of the largest triangle, a panic when there is no triangle
point_on_surface(polygon) ==
    LET ring == polygon.exterior
        triangles == earcut_triangles(polygon)
        area(t) == Abs(Area2(ring[t[1]], ring[t[2]], ring[t[3]]))
    IN  IF triangles = {} THEN Panic("polygon must have at least one triangle")
        ELSE LET largest == CHOOSE t \in triangles : \A u \in triangles : area(u) <= area(t)
             IN  Ok(Pt((ring[largest[1]].x + ring[largest[2]].x + ring[largest[3]].x) \div 3,
                       (ring[largest[1]].y + ring[largest[2]].y + ring[largest[3]].y) \div 3))

\* faulty variant: str::starts_with
starts_with(t, pat) == Len(pat) <= Len(t) /\ SubSeq(t, 1, Len(pat)) = pat

\* str::contains
contains(t, pat) ==
    \E k \in 1..(Len(t) - Len(pat) + 1) : SubSeq(t, k, k + Len(pat) - 1) = pat

\* the markers of parse.rs:372, one atom per character
chikugai == <<"chi", "ku", "gai">>
betsuzu == <<"betsu", "zu">>

\* parse.rs:350-366  the child elements of one fude: the last keijo decides the
\* geometry (None when its idref names no surface), the others are properties
RECURSIVE entries_from(_, _, _, _)
entries_from(entries, surfaces, geometry, prop_map) ==
    IF entries = <<>> THEN Ok([geometry |-> geometry, prop_map |-> prop_map])
    ELSE LET entry == Head(entries) IN
         IF entry.name = "keijo"
         THEN IF ~IsSome(entry.idref) THEN Err("MissingAttribute", "keijo.idref")
              ELSE entries_from(Tail(entries), surfaces,
                                Lookup(surfaces, Get(entry.idref)), prop_map)
         ELSE entries_from(Tail(entries), surfaces, geometry,
                           Insert(prop_map, entry.name,
                                  IF IsSome(entry.text) THEN Get(entry.text) ELSE <<>>))

\* faulty variant: the text is recorded as it is
code_of_raw(prop_map, name) == Lookup(prop_map, name)

\* parse.rs:391-402  prop_map.remove(name).and_then(|s| s.parse::<u32>().ok())
code_of(prop_map, name) ==
    IF IsSome(Lookup(prop_map, name)) THEN parse_u32(Get(Lookup(prop_map, name)))
    ELSE None

\* parse.rs:333-417  parse_features
RECURSIVE parse_features_from(_, _, _, _, _)
parse_features_from(fudes, surfaces, common_props, opts, features) ==
    IF fudes = <<>> THEN Ok(features)
    ELSE LET fude == Head(fudes) IN
         IF ~IsSome(fude.id) THEN Err("MissingAttribute", "fude.id")
         ELSE LET e == entries_from(fude.entries, surfaces, None, EmptyMap) IN
              IF ~IsOk(e) THEN Fail(e)
              ELSE LET prop_map == e.val.prop_map
                       chiban == Lookup(prop_map, "chiban")
                   IN
                   IF ~opts.include_chikugai /\ ~IsSome(chiban)
                   THEN Err("MissingElement", "chiban")
                   ELSE IF ~opts.include_chikugai
                           /\ (contains(Get(chiban), chikugai) \/ contains(Get(chiban), betsuzu))
                   THEN parse_features_from(Tail(fudes), surfaces, common_props, opts, features)
                   ELSE IF ~IsSome(e.val.geometry) THEN Err("MissingElement", "geometry")
                   ELSE LET geometry == Get(e.val.geometry)
                            point == point_on_surface(geometry)
                        IN
                        IF ~IsOk(point) THEN Fail(point)
                        ELSE parse_features_from(Tail(fudes), surfaces, common_props, opts,
                                 push(features,
                                   [geometry |-> geometry,
                                    chizumei |-> common_props.chizumei,
                                    shikuchoson_code |-> common_props.shikuchoson_code,
                                    shikuchoson_mei |-> common_props.shikuchoson_mei,
                                    zahyokei |-> common_props.zahyokei,
                                    sokuchikei_hanbetsu |-> common_props.sokuchikei_hanbetsu,
                                    fude_id |-> Get(fude.id),
                                    seido_kubun |-> Lookup(prop_map, "seido_kubun"),
                                    oaza_code |-> code_of(prop_map, "oaza_code"),
                                    chome_code |-> code_of(prop_map, "chome_code"),
                                    koaza_code |-> code_of(prop_map, "koaza_code"),
                                    yobi_code |-> code_of(prop_map, "yobi_code"),
                                    oaza_mei |-> Lookup(prop_map, "oaza_mei"),
                                    chome_mei |-> Lookup(prop_map, "chome_mei"),
                                    koaza_mei |-> Lookup(prop_map, "koaza_mei"),
                                    yobi_mei |-> Lookup(prop_map, "yobi_mei"),
                                    chiban |-> chiban,
                                    zahyochi_shubetsu |-> Lookup(prop_map, "zahyochi_shubetsu"),
                                    hikkai_mitei_koseihitsu |->
                                        Lookup(prop_map, "hikkai_mitei_koseihitsu"),
                                    daihyoten_ido |-> point.val.y,
                                    daihyoten_keido |-> point.val.x]))

parse_features(subject_elem, surfaces, common_props, opts) ==
    parse_features_from(subject_elem, surfaces, common_props, opts, <<>>)

\* parse.rs:450-484  parse_xml_content
parse_xml_content(file_data, opts) ==
    LET root == file_data.contents IN
    IF ~root.wellformed THEN Err("Xml", file_data.file_name)
    ELSE LET common_props == parse_common_properties(root) IN
    IF ~IsOk(common_props) THEN Fail(common_props)
    ELSE LET crs_string == child_text(root.zahyokei, "zahyokei") IN
    IF ~IsOk(crs_string) THEN Fail(crs_string)
    ELSE LET crs == get_proj(crs_string.val) IN
    IF ~IsOk(crs) THEN Fail(crs)
    ELSE IF ~IsSome(crs.val) /\ ~opts.include_arbitrary_crs
         THEN Ok([file_name |-> file_data.file_name, features |-> <<>>])
    ELSE IF ~IsSome(root.kukan_zokusei) THEN Err("MissingElement", "kukan_zokusei")
    ELSE LET spatial_element == Get(root.kukan_zokusei)
             points == parse_points(spatial_element)
         IN
    IF ~IsOk(points) THEN Fail(points)
    ELSE LET parsed_curves == parse_curves(spatial_element, points.val) IN
    IF ~IsOk(parsed_curves) THEN Fail(parsed_curves)
    ELSE LET curves == IF IsSome(crs.val)
                       THEN transform_curves_crs(parsed_curves.val, Get(crs.val))
                       ELSE parsed_curves
         IN
    IF ~IsOk(curves) THEN Fail(curves)
    ELSE LET surfaces == parse_surfaces(spatial_element, curves.val) IN
    IF ~IsOk(surfaces) THEN Fail(surfaces)
    ELSE IF ~IsSome(root.shudai_zokusei) THEN Err("MissingElement", "shudai_zokusei")
    ELSE LET features == parse_features(Get(root.shudai_zokusei), surfaces.val,
                                        common_props.val, opts)
         IN
    IF ~IsOk(features) THEN Fail(features)
    ELSE Ok([file_name |-> file_data.file_name, features |-> features.val])

(***************************************************************************)
(* The documents the archives hold.  ParcelDoc is a well-formed map sheet  *)
(* with one parcel on a triangle; every other document differs from it in  *)
(* one place.                                                              *)
(***************************************************************************)
Elem(text) == Some(Some(text))
IndirectPos(ref) == [name |-> "GM_Position.indirect", ref |-> Elem(ref), x |-> None, y |-> None]
PointDecl(id, x, y) == [id |-> Some(id), pos |-> Some([x |-> Elem(Num(x)), y |-> Elem(Num(y))])]
CurveDecl(id, ref) == [id |-> Some(id), segment |-> TRUE, column |-> TRUE,
                       pos |-> Some(IndirectPos(ref))]
SurfaceDecl(id, refs) ==
    [id |-> Some(id),
     polygons |-> <<[exterior |-> Some([k \in 1..Len(refs) |-> Some(refs[k])]),
                     interiors |-> <<>>]>>]
FudeDecl(id, surface, chiban_text) ==
    [id |-> Some(id),
     entries |-> <<[name |-> "oaza_code", idref |-> None, text |-> Some(<<"0", "0", "1">>)],
                   [name |-> "chiban", idref |-> None, text |-> Some(chiban_text)],
                   [name |-> "keijo", idref |-> Some(surface), text |-> None]>>]

TriangleSpace ==
    [points |-> <<PointDecl("P1", 0, 0), PointDecl("P2", 4, 0), PointDecl("P3", 0, 4)>>,
     curves |-> <<CurveDecl("C1", "P1"), CurveDecl("C2", "P2"), CurveDecl("C3", "P3")>>,
     surfaces |-> <<SurfaceDecl("S1", <<"C1", "C2", "C3">>)>>]

ParcelDoc ==
    [wellformed |-> TRUE,
     chizumei |-> Elem("sheet"),
     shikuchoson_code |-> Elem(<<"4", "6", "5", "0", "5">>),
     shikuchoson_mei |-> Elem("town"),
     zahyokei |-> Elem("kokyo_zahyo_2_kei"),
     sokuchikei_hanbetsu |-> Elem("henkan"),
     kukan_zokusei |-> Some(TriangleSpace),
     shudai_zokusei |-> Some(<<FudeDecl("F1", "S1", <<"1", "2">>)>>)]

\* no parcel at all
EmptyDoc == [ParcelDoc EXCEPT !.shudai_zokusei = Some(<<>>)]
\* a sheet in the arbitrary coordinate system
ArbitraryDoc == [ParcelDoc EXCEPT !.zahyokei = Elem("ninni_zahyokei")]
\* its only parcel lies outside the district
ChikugaiDoc ==
    [ParcelDoc EXCEPT !.shudai_zokusei = Some(<<FudeDecl("F1", "S1", chikugai \o <<"1">>)>>)]
\* not XML
MalformedDoc == [ParcelDoc EXCEPT !.wellformed = FALSE]
\* the municipality code is not a number
BadCodeDoc == [ParcelDoc EXCEPT !.shikuchoson_code = Elem(<<"4", "6", "x">>)]
\* a coordinate system that is not in the table
UnknownCrsDoc == [ParcelDoc EXCEPT !.zahyokei = Elem("kokyo_zahyo_20_kei")]
\* a curve refers to a point that is not declared
DanglingDoc ==
    [ParcelDoc EXCEPT !.kukan_zokusei =
        Some([TriangleSpace EXCEPT !.curves[3] = CurveDecl("C3", "P9")])]
\* the parcel refers to a surface that is not declared
NoGeometryDoc ==
    [ParcelDoc EXCEPT !.shudai_zokusei = Some(<<FudeDecl("F1", "S9", <<"1", "2">>)>>)]
\* the element sokuchikei_hanbetsu is present and empty
EmptyDatumDoc == [ParcelDoc EXCEPT !.sokuchikei_hanbetsu = Some(None)]
\* the boundary of the parcel's surface has two vertices only
FlatDoc ==
    [ParcelDoc EXCEPT !.kukan_zokusei =
        Some([TriangleSpace EXCEPT !.surfaces = <<SurfaceDecl("S1", <<"C1", "C2">>)>>])]

SampleDocs == {ParcelDoc, EmptyDoc, ArbitraryDoc, ChikugaiDoc, MalformedDoc, BadCodeDoc,
               UnknownCrsDoc, DanglingDoc, NoGeometryDoc, EmptyDatumDoc, FlatDoc}

\* main.rs:33-40  ParseOptions as the command line builds them
ParseOptions == [include_arbitrary_crs : BOOLEAN, include_chikugai : BOOLEAN]
DefaultOptions == [include_arbitrary_crs |-> FALSE, include_chikugai |-> FALSE]

\* what a parse worker sees of the result of parse_xml_content: Ok with the
\* number of features, an Err, or the panic
Outcome(r) == [tag |-> r.tag, n |-> IF IsOk(r) THEN Len(r.val.features) ELSE 0]

\* processor.rs:135  parse_xml_content(&file, &parse_options) over the documents
ParseOutcomes ==
    {<<o, Outcome(parse_xml_content([file_name |-> "doc.xml", contents |-> d], o))>> :
        o \in ParseOptions, d \in SampleDocs}
OutcomesUnder(o) == {po[2] : po \in {q \in ParseOutcomes : q[1] = o}}

(***************************************************************************)
(* Channels (crossbeam_channel).  recv fails when the channel is empty and *)
(* every Sender is dropped; send fails when every Receiver is dropped, and *)
(* blocks while the channel is full.  A thread drops the handles it        *)
(* captured when its closure ends, normally or by unwinding from a panic.  *)
(***************************************************************************)
Ended(t) == pc[t] \in {"done", "panicked"}

\* faulty variant: the path channel counts as closed while the feeder still runs
XmlTxAlive_closed == FALSE

\* xml_tx is moved into the feeder (processor.rs:73)
XmlTxAlive == ~Ended(FeederT)
\* parser_tx: one clone per archive worker; the original is dropped at :120
ParserTxAlive == \E t \in ZipThreads : ~Ended(t)
\* writer_tx, outline_writer_tx: one clone per parse worker; originals dropped at :160-161
WriterTxAlive == \E t \in XmlThreads : ~Ended(t)
\* writer_rx is moved into the writer thread (processor.rs:168)
WriterRxAlive == ~Ended(W("fgb"))
\* outline_writer_rx is moved into the outline thread (processor.rs:192) when
\* outline output is requested; otherwise process_files keeps it until it returns
OutlineRxAlive == IF calculate_xml_outline THEN ~Ended(W("outline")) ELSE TRUE

Queue(w) == IF w = "fgb" THEN writerq ELSE outlineq

\* process_files joins the handles in the order they were pushed (processor.rs:73-235)
Handles ==
    <<FeederT>> \o [i \in 1..ArchiveWorkers |-> Zip(i)]
                 \o [j \in 1..ParseWorkers |-> Xml(j)]
                 \o <<W("fgb")>>
                 \o (IF calculate_xml_outline THEN <<W("outline")>> ELSE <<>>)

\* a panic of the main thread ends the process, and with it every worker
Running == mpc = "join"

\* the documents of one run
DocBound == IF calculate_xml_outline THEN MaxOutlineDocs ELSE MaxDocs

\* faulty variant: recv hands the message out and leaves it in the channel
Dequeue_keep(q) == q

\* Receiver::recv on a channel that holds a message: the message leaves the channel
Dequeue(q) == Tail(q)

(***************************************************************************)
(* Init: the state once process_files has spawned its threads and dropped  *)
(* its own senders (processor.rs:233), before the first join.  The run is  *)
(* with or without outline output, with the parse options of the command   *)
(* line's defaults, and with or without a stale file at each output path.  *)
(***************************************************************************)
\* the pipeline is not started with these
Idle == <<>>

\* processor.rs:35-67  xml_pb, parser_pb, writer_pb and outline_writer_pb,
\* each indicatif::ProgressBar::new(0)
Bars == {"xml", "parser", "writer", "outline"}

\* ProgressBar::inc_length(1) and ProgressBar::inc(1)
inc_length(bars, b) == [bars EXCEPT ![b].length = @ + 1]
inc(bars, b) == [bars EXCEPT ![b].position = @ + 1]

\* faulty variant: a failed parse does not move the parse bar
parse_failed_silent(bars) == bars

\* processor.rs:149-155  the Err arm of the parse worker: parser_pb.inc(1)
parse_failed(bars) == inc(bars, "parser")

\* processor.rs:144-145  writer_pb.inc_length(1); parser_pb.inc(1);
parse_done(bars) == inc(inc_length(bars, "writer"), "parser")

PipelineInit ==
    /\ options = DefaultOptions
    /\ pc = [t \in Threads |->
                IF t = FeederT THEN "run"
                ELSE IF t \in ZipThreads \cup XmlThreads THEN "recv"
                ELSE IF t = W("fgb") THEN "new"
                ELSE IF calculate_xml_outline THEN "new" ELSE "absent"]
    /\ sent = 0
    /\ xmlq = <<>>
    /\ zidx = [i \in ZipIds |-> 0]
    /\ zdoc = [i \in ZipIds |-> NoDoc]
    /\ xml_files = 0
    /\ parserq = <<>>
    /\ held = [j \in XmlIds |-> NoParsed]
    /\ writerq = <<>>
    /\ outlineq = <<>>
    /\ has_features = [w \in Writers |-> FALSE]
    /\ wlog = [w \in Writers |-> [d \in 1..MaxDocs |-> <<>>]]
    /\ flushed = [w \in Writers |-> <<>>]
    /\ mpc = "join"
    /\ ret = [status |-> "none", count |-> 0]
    /\ parseRes = [d \in 1..MaxDocs |-> NotParsed]
    /\ dropped = 0
    /\ pb = [b \in Bars |-> [length |-> 0, position |-> 0]]

Init ==
    /\ calculate_xml_outline \in BOOLEAN
    /\ file \in [Writers -> BOOLEAN]
    /\ (~calculate_xml_outline => ~file["outline"])
    /\ PipelineInit
    /\ rd = Idle
    /\ pp = Idle

(***************************************************************************)
(* Stage 0: the feeder (processor.rs:73-79)                                *)
(***************************************************************************)
\* for path in src_files { xml_tx.send(path).unwrap() }: the channel is unbounded
\* and process_files holds xml_rx, so the send neither blocks nor fails
FeederSend ==
    /\ Running /\ pc[FeederT] = "run"
    /\ sent < MaxPaths
    /\ sent' = sent + 1
    /\ xmlq' = Append(xmlq, sent + 1)
    /\ pb' = inc_length(pb, "xml")
    /\ UNCHANGED <<rd, pp, calculate_xml_outline, options, pc, zidx, zdoc, xml_files,
                   parserq, held, writerq, outlineq, has_features, wlog, file,
                   flushed, mpc, ret, parseRes, dropped>>

\* src_files is exhausted: the closure ends and xml_tx is dropped
FeederDone ==
    /\ Running /\ pc[FeederT] = "run"
    /\ pc' = [pc EXCEPT ![FeederT] = "done"]
    /\ UNCHANGED <<rd, pp, pb, calculate_xml_outline, options, sent, xmlq, zidx, zdoc,
                   xml_files, parserq, held, writerq, outlineq, has_features,
                   wlog, file, flushed, mpc, ret, parseRes, dropped>>

(***************************************************************************)
(* Stage 1: the archive workers (processor.rs:87-118)                      *)
(***************************************************************************)
\* `for item in iter_xml_contents(&path)` up to its next blocking call: the
\* iterator yields `errs` errors, each logged (processor.rs:103-111), and then
\* either a document, which is counted in xml_files and offered to
\* parser_tx.send (:99-101), or nothing more, and the worker is back at
\* xml_rx.recv() (:116, :88).  Nothing in between is visible to another thread.
ZipAdvance(i, from, errs, doc) ==
    /\ from + errs + (IF doc THEN 1 ELSE 0) <= MaxItems
    /\ IF doc
       THEN /\ xml_files < DocBound
            /\ xml_files' = xml_files + 1
            /\ zdoc' = [zdoc EXCEPT ![i] = xml_files + 1]
            /\ zidx' = [zidx EXCEPT ![i] = from + errs + 1]
            /\ pc' = [pc EXCEPT ![Zip(i)] = "send"]
            /\ pb' = inc_length(pb, "parser")
       ELSE /\ zidx' = [zidx EXCEPT ![i] = 0]
            /\ zdoc' = [zdoc EXCEPT ![i] = NoDoc]
            /\ pc' = [pc EXCEPT ![Zip(i)] = "recv"]
            /\ pb' = inc(pb, "xml")
            /\ UNCHANGED xml_files

\* while let Ok(path) = xml_rx.recv(): a path is taken and its iterator started
ZipRecv(i) ==
    /\ Running /\ pc[Zip(i)] = "recv"
    /\ xmlq # <<>>
    /\ xmlq' = Dequeue(xmlq)
    /\ \E errs \in 0..MaxItems, doc \in BOOLEAN : ZipAdvance(i, 0, errs, doc)
    /\ UNCHANGED <<rd, pp, calculate_xml_outline, options, sent, parserq, held,
                   writerq, outlineq, has_features, wlog, file, flushed, mpc,
                   ret, parseRes, dropped>>

\* xml_rx.recv() is Err: the channel is empty and the feeder has dropped xml_tx
ZipExit(i) ==
    /\ Running /\ pc[Zip(i)] = "recv"
    /\ xmlq = <<>> /\ ~XmlTxAlive
    /\ pc' = [pc EXCEPT ![Zip(i)] = "done"]
    /\ UNCHANGED <<rd, pp, pb, calculate_xml_outline, options, sent, xmlq, zidx, zdoc,
                   xml_files, parserq, held, writerq, outlineq, has_features,
                   wlog, file, flushed, mpc, ret, parseRes, dropped>>

\* faulty variant: a send that does not wait for room in the channel
ZipSendGuard_open == TRUE

\* parser_tx.send(file_data).unwrap(): blocks while the channel holds
\* `concurrency` documents; process_files keeps parser_rx, so it never fails.
\* The loop then goes on with the iterator.
ZipSendGuard == Len(parserq) < ParserCap

ZipSend(i) ==
    /\ Running /\ pc[Zip(i)] = "send"
    /\ ZipSendGuard
    /\ parserq' = Append(parserq, zdoc[i])
    /\ \E errs \in 0..MaxItems, doc \in BOOLEAN : ZipAdvance(i, zidx[i], errs, doc)
    /\ UNCHANGED <<rd, pp, calculate_xml_outline, options, sent, xmlq,
                   held, writerq, outlineq, has_features, wlog, file, flushed,
                   mpc, ret, parseRes, dropped>>

(***************************************************************************)
(* Stage 2: the parse workers (processor.rs:132-158)                       *)
(***************************************************************************)
\* faulty variant: a parse worker that sends every result on, Ok or not
Forwarded_any(r) == TRUE

\* processor.rs:136-155  match parsed: Ok(parsed) is sent on, Err(e) is logged
Forwarded(r) == r.tag = "ok"

\* faulty variant: the result goes to the outline channel whatever was asked
first_send_outline(outline) == "send_outline"

\* processor.rs:139-146  where an Ok result goes first: to the outline channel
\* `if calculate_xml_outline`, else straight to the writer channel
first_send(outline) == IF outline THEN "send_outline" ELSE "send_writer"

\* while let Ok(file_data) = parser_rx.recv() { parse_xml_content(..) ... }
XmlRecv(j) ==
    /\ Running /\ pc[Xml(j)] = "recv"
    /\ parserq # <<>>
    /\ parserq' = Dequeue(parserq)
    /\ \E r \in OutcomesUnder(options) :
          LET id == Head(parserq) IN
          /\ parseRes' = [parseRes EXCEPT ![id] = r]
          /\ \/ /\ r.tag # "panic" /\ Forwarded(r)
                /\ held' = [held EXCEPT ![j] = [id |-> id, n |-> r.n]]
                /\ pc' = [pc EXCEPT ![Xml(j)] = first_send(calculate_xml_outline)]
                /\ pb' = IF calculate_xml_outline THEN inc_length(pb, "outline")
                         ELSE parse_done(pb)
                /\ UNCHANGED dropped
             \/ /\ r.tag # "panic" /\ ~Forwarded(r)
                /\ dropped' = dropped + 1
                /\ pb' = parse_failed(pb)
                /\ UNCHANGED <<held, pc>>
             \/ /\ r.tag = "panic"
                /\ dropped' = dropped + 1
                /\ pc' = [pc EXCEPT ![Xml(j)] = "panicked"]
                /\ UNCHANGED <<held, pb>>
    /\ UNCHANGED <<rd, pp, calculate_xml_outline, options, sent, xmlq, zidx, zdoc,
                   xml_files, writerq, outlineq, has_features, wlog, file,
                   flushed, mpc, ret>>

\* parser_rx.recv() is Err: empty, and every archive worker has ended
XmlExit(j) ==
    /\ Running /\ pc[Xml(j)] = "recv"
    /\ parserq = <<>> /\ ~ParserTxAlive
    /\ pc' = [pc EXCEPT ![Xml(j)] = "done"]
    /\ UNCHANGED <<rd, pp, pb, calculate_xml_outline, options, sent, xmlq, zidx, zdoc,
                   xml_files, parserq, held, writerq, outlineq, has_features,
                   wlog, file, flushed, mpc, ret, parseRes, dropped>>

\* outline_writer_tx.send(parsed.clone()).unwrap()  (processor.rs:141)
XmlSendOutline(j) ==
    /\ Running /\ pc[Xml(j)] = "send_outline"
    /\ \/ /\ OutlineRxAlive
          /\ Len(outlineq) < OutlineCap
          /\ outlineq' = Append(outlineq, held[j])
          /\ pc' = [pc EXCEPT ![Xml(j)] = "send_writer"]
          /\ pb' = parse_done(pb)
          /\ UNCHANGED <<held, dropped>>
       \/ /\ ~OutlineRxAlive
          /\ pc' = [pc EXCEPT ![Xml(j)] = "panicked"]
          /\ held' = [held EXCEPT ![j] = NoParsed]
          /\ dropped' = dropped + 1
          /\ UNCHANGED <<outlineq, pb>>
    /\ UNCHANGED <<rd, pp, calculate_xml_outline, options, sent, xmlq, zidx, zdoc,
                   xml_files, parserq, writerq, has_features, wlog, file,
                   flushed, mpc, ret, parseRes>>

\* writer_tx.send(parsed).unwrap()  (processor.rs:146)
XmlSendGuard == Len(writerq) < WriterCap

XmlSendWriter(j) ==
    /\ Running /\ pc[Xml(j)] = "send_writer"
    /\ \/ /\ WriterRxAlive
          /\ XmlSendGuard
          /\ writerq' = Append(writerq, held[j])
          /\ held' = [held EXCEPT ![j] = NoParsed]
          /\ pc' = [pc EXCEPT ![Xml(j)] = "recv"]
          /\ UNCHANGED dropped
       \/ /\ ~WriterRxAlive
          /\ pc' = [pc EXCEPT ![Xml(j)] = "panicked"]
          /\ held' = [held EXCEPT ![j] = NoParsed]
          /\ dropped' = dropped + 1
          /\ UNCHANGED writerq
    /\ UNCHANGED <<rd, pp, pb, calculate_xml_outline, options, sent, xmlq, zidx, zdoc,
                   xml_files, parserq, outlineq, has_features, wlog, file,
                   flushed, mpc, ret, parseRes>>

(***************************************************************************)
(* Stage 3 and 3b: the writer and the outline writer                       *)
(* (processor.rs:168-185 and :192-232, writer.rs)                          *)
(***************************************************************************)
\* the receiver is dropped while unwinding: what the channel still holds is lost
Discard(w) ==
    /\ dropped' = dropped + (IF w = "fgb" THEN Len(writerq) ELSE 0)
    /\ writerq' = IF w = "fgb" THEN <<>> ELSE writerq
    /\ outlineq' = IF w = "outline" THEN <<>> ELSE outlineq

\* FGBWriter::new(&output_path, &write_options).unwrap()  (writer.rs:25-92):
\* File::create makes or truncates the file, or fails and the thread panics
WriterNew(w) ==
    /\ Running /\ pc[W(w)] = "new"
    /\ \/ /\ file' = [file EXCEPT ![w] = TRUE]
          /\ pc' = [pc EXCEPT ![W(w)] = "loop"]
          /\ UNCHANGED <<writerq, outlineq, dropped>>
       \/ /\ pc' = [pc EXCEPT ![W(w)] = "panicked"]
          /\ Discard(w)
          /\ UNCHANGED file
    /\ UNCHANGED <<rd, pp, pb, calculate_xml_outline, options, sent, xmlq, zidx, zdoc,
                   xml_files, parserq, held, has_features, wlog, flushed, mpc,
                   ret, parseRes>>

\* FGBWriter::add_features, as writer.rs:94-183 has it (add_xml_features):
\*   for feature in features { self.has_features = true; add_feature_geom(..)?; }
\* n records are offered, the first k are appended; k < n is an error of
\* add_feature_geom at record k + 1, which ends the call with Err.  The result
\* is the new has_features.
add_features(has, n, k) == has \/ n > 0

\* in wlog: the one outline record of a document was offered, with its count
Outlined(k, count) == [n |-> 1, k |-> k, count |-> count]

\* faulty variant: an outline is computed for a document without features too
calculate_feature_outline_total(p) == [tag |-> "ok", count |-> p.n]

\* calculate_feature_outline (outline_feature.rs:53-88): Err for a document
\* without features, else one record whose count is the number of features
calculate_feature_outline(p) ==
    IF p.n = 0 THEN [tag |-> "err", count |-> 0]
    ELSE [tag |-> "ok", count |-> p.n]

\* one turn of `while let Ok(parsed_xml) = writer_rx.recv()`  (processor.rs:170-181)
WriterAppend ==
    /\ Running /\ pc[W("fgb")] = "loop"
    /\ writerq # <<>>
    /\ writerq' = Dequeue(writerq)
    /\ LET p == Head(writerq) IN
       \E k \in 0..p.n :
          /\ has_features' = [has_features EXCEPT !["fgb"] = add_features(@, p.n, k)]
          /\ wlog' = [wlog EXCEPT !["fgb"][p.id] = Append(@, Appended(p.n, k))]
          /\ pb' = IF k = p.n THEN inc(pb, "writer") ELSE pb
    /\ UNCHANGED <<rd, pp, calculate_xml_outline, options, pc, sent, xmlq, zidx, zdoc,
                   xml_files, parserq, held, outlineq, file, flushed, mpc,
                   ret, parseRes, dropped>>

\* one turn of `while let Ok(parsed_xml) = outline_writer_rx.recv()`  (:195-222)
OutlineAppend ==
    /\ Running /\ pc[W("outline")] = "loop"
    /\ outlineq # <<>>
    /\ outlineq' = Dequeue(outlineq)
    /\ LET p == Head(outlineq)
           o == calculate_feature_outline(p)
       IN  \/ /\ o.tag = "err"
              /\ wlog' = [wlog EXCEPT !["outline"][p.id] = Append(@, Skipped)]
              /\ UNCHANGED <<has_features, pb>>
           \/ /\ o.tag = "ok"
              /\ \E k \in 0..1 :
                    /\ has_features' = [has_features EXCEPT
                                          !["outline"] = add_features(@, 1, k)]
                    /\ wlog' = [wlog EXCEPT !["outline"][p.id] =
                                    Append(@, Outlined(k, o.count))]
                    /\ pb' = IF k = 1 THEN inc(pb, "outline") ELSE pb
    /\ UNCHANGED <<rd, pp, calculate_xml_outline, options, pc, sent, xmlq, zidx, zdoc,
                   xml_files, parserq, held, writerq, file, flushed, mpc,
                   ret, parseRes, dropped>>

\* faulty variant: the writer leaves its loop whatever the channel holds
WriterExitGuard_any(w) == TRUE

\* recv() is Err: the channel is empty and every parse worker has ended
WriterExitGuard(w) == Queue(w) = <<>> /\ ~WriterTxAlive

WriterExit(w) ==
    /\ Running /\ pc[W(w)] = "loop"
    /\ WriterExitGuard(w)
    /\ pc' = [pc EXCEPT ![W(w)] = "flush"]
    /\ UNCHANGED <<rd, pp, pb, calculate_xml_outline, options, sent, xmlq, zidx, zdoc,
                   xml_files, parserq, held, writerq, outlineq, has_features,
                   wlog, file, flushed, mpc, ret, parseRes, dropped>>

\* faulty variant: flush without the NotFound arm of writer.rs:199
flush_strict(has, exists, io) ==
    IF has
    THEN IF io = "ok" THEN <<"true", exists>> ELSE <<"err", exists>>
    ELSE IF io = "ok" THEN <<"false", FALSE>> ELSE <<"err", exists>>

\* FGBWriter::flush (writer.rs:190-206).  io is what the file system answers:
\*   with features: "ok" or "error" of fgb.write / writer.flush;
\*   without:       "ok", "notfound" or "error" of remove_file
\* The result is <<what flush returns, whether the file exists afterwards>>.
flush(has, exists, io) ==
    IF has
    THEN IF io = "ok" THEN <<"true", exists>> ELSE <<"err", exists>>
    ELSE IF io = "ok" THEN <<"false", FALSE>>
         ELSE IF io = "notfound" THEN <<"false", FALSE>>
         ELSE <<"err", exists>>

\* fgb.flush().unwrap()  (processor.rs:183, :227): an Err panics the thread.
\* remove_file answers NotFound when something else has removed the file since
\* File::create.
WriterFlush(w) ==
    /\ Running /\ pc[W(w)] = "flush"
    /\ \E io \in {"ok", "notfound", "error"} :
          /\ (io = "notfound" => ~has_features[w])
          /\ LET r == flush(has_features[w], file[w], io) IN
             /\ flushed' = [flushed EXCEPT ![w] = Append(@, [result |-> r[1], io |-> io])]
             /\ file' = [file EXCEPT ![w] = r[2]]
             /\ pc' = [pc EXCEPT ![W(w)] = IF r[1] = "err" THEN "panicked" ELSE "done"]
    /\ UNCHANGED <<rd, pp, pb, calculate_xml_outline, options, sent, xmlq, zidx, zdoc,
                   xml_files, parserq, held, writerq, outlineq, has_features,
                   wlog, mpc, ret, parseRes, dropped>>

(***************************************************************************)
(* process_files itself (processor.rs:235-252)                             *)
(***************************************************************************)
\* handles.into_iter().map(|h| h.join().expect("Thread panicked")): the handles are
\* joined in order; join blocks until the thread has ended and expect panics when
\* it panicked.  process_files therefore panics once some handle has panicked and
\* every handle before it is done.
JoinPanics ==
    \E k \in 1..Len(Handles) :
        /\ pc[Handles[k]] = "panicked"
        /\ \A m \in 1..(k - 1) : pc[Handles[m]] = "done"

AllJoined == \A k \in 1..Len(Handles) : pc[Handles[k]] = "done"

Join ==
    /\ mpc = "join"
    /\ JoinPanics
    /\ mpc' = "panicked"
    /\ UNCHANGED <<rd, pp, pb, calculate_xml_outline, options, pc, sent, xmlq, zidx, zdoc,
                   xml_files, parserq, held, writerq, outlineq, has_features,
                   wlog, file, flushed, ret, parseRes, dropped>>

\* Ok(xml_files.load(Ordering::Relaxed))  (processor.rs:252)
process_files_result == [status |-> "ok", count |-> xml_files]

Return ==
    /\ mpc = "join"
    /\ AllJoined
    /\ mpc' = "returned"
    /\ ret' = process_files_result
    /\ UNCHANGED <<rd, pp, pb, calculate_xml_outline, options, pc, sent, xmlq, zidx, zdoc,
                   xml_files, parserq, held, writerq, outlineq, has_features,
                   wlog, file, flushed, parseRes, dropped>>

Feeder == FeederSend \/ FeederDone
ZipWorker(i) == ZipRecv(i) \/ ZipExit(i) \/ ZipSend(i)
XmlWorker(j) == XmlRecv(j) \/ XmlExit(j) \/ XmlSendOutline(j) \/ XmlSendWriter(j)
FgbWriter == WriterNew("fgb") \/ WriterAppend \/ WriterExit("fgb") \/ WriterFlush("fgb")
OutlineWriter ==
    WriterNew("outline") \/ OutlineAppend \/ WriterExit("outline") \/ WriterFlush("outline")
Main == Join \/ Return

Next ==
    \/ Feeder
    \/ \E i \in ZipIds : ZipWorker(i)
    \/ \E j \in XmlIds : XmlWorker(j)
    \/ FgbWriter
    \/ OutlineWriter
    \/ Main

Spec == Init /\ [][Next]_vars

\* every thread that can take a step is scheduled eventually
Fairness ==
    /\ WF_vars(Feeder)
    /\ \A i \in ZipIds : WF_vars(ZipWorker(i))
    /\ \A j \in XmlIds : WF_vars(XmlWorker(j))
    /\ WF_vars(FgbWriter)
    /\ WF_vars(OutlineWriter)
    /\ WF_vars(Main)

FairSpec == Spec /\ Fairness

AnyPanicked == \E t \in Threads : pc[t] = "panicked"
Terminates == <>(mpc = "returned" \/ AnyPanicked)

(***************************************************************************)
(* What a state says about the documents of the run.                       *)
(***************************************************************************)
Docs == 1..MaxDocs

\* every call of add_features a writer has made, over all documents
RECURSIVE Entries(_, _)
Entries(w, d) == IF d = 0 THEN <<>> ELSE Entries(w, d - 1) \o wlog[w][d]

RECURSIVE SumOffered(_)
SumOffered(es) == IF es = <<>> THEN 0 ELSE Head(es).n + SumOffered(Tail(es))

RECURSIVE SumAppended(_)
SumAppended(es) == IF es = <<>> THEN 0 ELSE Head(es).k + SumAppended(Tail(es))

\* records offered to, and records accepted by, the writer w
Offered(w) == SumOffered(Entries(w, MaxDocs))
Accepted(w) == SumAppended(Entries(w, MaxDocs))
\* documents the writer has taken from its queue
Written == Len(Entries("fgb", MaxDocs))

ParsedOk(d) == parseRes[d].tag = "ok"
ParseFailed(d) == parseRes[d].tag \in {"err", "panic"}

\* the places a document that is read and not yet written or discarded is in
AtSender(d) == {i \in ZipIds : pc[Zip(i)] = "send" /\ zdoc[i] = d}
InParserq(d) == {k \in 1..Len(parserq) : parserq[k] = d}
AtParser(d) == {j \in XmlIds : held[j].id = d}
InWriterq(d) == {k \in 1..Len(writerq) : writerq[k].id = d}
InOutlineq(d) == {k \in 1..Len(outlineq) : outlineq[k].id = d}
Holders(d) ==
    Cardinality(AtSender(d)) + Cardinality(InParserq(d))
        + Cardinality(AtParser(d)) + Cardinality(InWriterq(d))

RECURSIVE HeldUpTo(_)
HeldUpTo(d) == IF d = 0 THEN 0 ELSE Holders(d) + HeldUpTo(d - 1)

\* documents read and neither written nor discarded
InFlight == xml_files - Written - dropped

FgbFinalizing == pc[W("fgb")] = "flush" \/ flushed["fgb"] # <<>>

(***************************************************************************)
(* C1  Per-document fault isolation.  A document for which                 *)
(* parse_xml_content does not return Ok is never in the writer queue or    *)
(* the outline queue and no writer appends anything for it; and when the   *)
(* writer finalizes the output, every document that parsed successfully    *)
(* has been taken by the writer once, with all its records offered to      *)
(* add_features.  (A parse worker that panics on a send to an outline      *)
(* writer that could not create its file takes its document with it: that  *)
(* is the fatal output failure of C3, not a parse failure.)                *)
(***************************************************************************)
C1_FailedContributesNothing ==
    \A d \in Docs :
        ParseFailed(d) =>
            /\ \A w \in Writers : wlog[w][d] = <<>>
            /\ InWriterq(d) = {} /\ InOutlineq(d) = {} /\ AtParser(d) = {}

C1_OthersAppended ==
    (FgbFinalizing /\ pc[W("outline")] # "panicked") =>
        \A d \in Docs :
            ParsedOk(d) =>
                /\ Len(wlog["fgb"][d]) = 1
                /\ wlog["fgb"][d][1].n = parseRes[d].n

C1_FaultIsolation == C1_FailedContributesNothing /\ C1_OthersAppended

\* the output is finalized with a file, one document failed to parse and
\* another one has its record in the output
C1_Witness ==
    /\ flushed["fgb"] # <<>> /\ flushed["fgb"][1].result = "true"
    /\ \E d, e \in Docs :
          /\ parseRes[d].tag = "err"
          /\ ParsedOk(e) /\ wlog["fgb"][e] = <<Appended(1, 1)>>

(***************************************************************************)
(* C2  Clean shutdown without deadlock.  An archive worker leaves its loop *)
(* only when the path channel is empty and the feeder has dropped its      *)
(* sender, a parse worker only when the document channel is empty and      *)
(* every archive worker has ended, a writer only when its channel is empty *)
(* and every parse worker has ended, and process_files returns only after  *)
(* every thread has ended; and every run in which no thread panics reaches *)
(* the return of process_files.                                            *)
(***************************************************************************)
C2_LeaveWhenClosed ==
    /\ \A i \in ZipIds :
          (pc[Zip(i)] # "done" /\ pc'[Zip(i)] = "done") =>
              (xmlq = <<>> /\ pc[FeederT] = "done")
    /\ \A j \in XmlIds :
          (pc[Xml(j)] # "done" /\ pc'[Xml(j)] = "done") =>
              (parserq = <<>> /\ \A i \in ZipIds : pc[Zip(i)] = "done")
    /\ \A w \in Writers :
          (pc[W(w)] = "loop" /\ pc'[W(w)] # "loop") =>
              (Queue(w) = <<>> /\ \A j \in XmlIds : Ended(Xml(j)))
    /\ (mpc # "returned" /\ mpc' = "returned") =>
              \A t \in Threads : pc[t] \in {"done", "absent"}

C2_CleanShutdown == [][C2_LeaveWhenClosed]_vars /\ Terminates

\* a run with outline output that read three documents and returned
C2_Witness ==
    /\ mpc = "returned" /\ calculate_xml_outline
    /\ xml_files = MaxOutlineDocs /\ sent = MaxPaths

(***************************************************************************)
(* C3  A fatal failure ends the run with a failure.  As the claim states   *)
(* it for the writer that cannot create the output file, no document       *)
(* having panicked the parser: process_files is never left joining while   *)
(* an archive worker waits to send on a full document channel whose parse  *)
(* workers have all ended.                                                 *)
(***************************************************************************)
C3_NeverBlocksForever ==
    ~ /\ mpc = "join"
      /\ pc[W("fgb")] = "panicked" /\ flushed["fgb"] = <<>>
      /\ \A d \in Docs : parseRes[d].tag # "panic"
      /\ \E i \in ZipIds : pc[Zip(i)] = "send"
      /\ Len(parserq) = ParserCap
      /\ \A j \in XmlIds : Ended(Xml(j))

(***************************************************************************)
(* C4  Exactly-once hand-off.  A document is in at most one place between  *)
(* the archive worker and the writer, the writer takes it at most once,    *)
(* and when process_files returns the channels are empty and every         *)
(* document that parsed successfully has been taken by the writer once.    *)
(***************************************************************************)
C4_ExactlyOnce ==
    /\ \A d \in Docs : Holders(d) + Len(wlog["fgb"][d]) <= 1
    /\ mpc = "returned" =>
          /\ parserq = <<>> /\ writerq = <<>> /\ outlineq = <<>>
          /\ \A d \in Docs : ParsedOk(d) => Len(wlog["fgb"][d]) = 1

\* process_files has returned and each parse worker's document is in the output
C4_Witness ==
    /\ mpc = "returned"
    /\ \E d, e \in Docs :
          /\ d # e
          /\ wlog["fgb"][d] = <<Appended(1, 1)>>
          /\ wlog["fgb"][e] = <<Appended(1, 1)>>

(***************************************************************************)
(* C5  Finalize ordering.  The writer calls flush at most once, and once   *)
(* when process_files returns; when it calls flush its channel is empty    *)
(* and every parse worker has ended; and nothing is appended after flush.  *)
(***************************************************************************)
C5_FlushLast ==
    /\ Len(flushed["fgb"]) <= 1
    /\ mpc = "returned" => Len(flushed["fgb"]) = 1
    /\ FgbFinalizing => (writerq = <<>> /\ \A j \in XmlIds : Ended(Xml(j)))

C5_NoAppendAfterFlush == flushed["fgb"] # <<>> => wlog'["fgb"] = wlog["fgb"]

C5_FinalizeOrdering == []C5_FlushLast /\ [][C5_NoAppendAfterFlush]_vars

\* flush has been called after two documents were appended
C5_Witness ==
    /\ flushed["fgb"] # <<>>
    /\ Written = 2 /\ Accepted("fgb") = 2

(***************************************************************************)
(* C6  Back-pressure bounds.  The document channel holds at most           *)
(* `concurrency` documents, the writer and outline channels at most one    *)
(* result each, and the documents read and neither written nor discarded   *)
(* are those at a blocked sender, in the document channel, at a parse      *)
(* worker or in the writer channel: at most the two capacities plus the    *)
(* number of archive and parse workers.                                    *)
(***************************************************************************)
C6_BackPressure ==
    /\ Len(parserq) <= Concurrency
    /\ Len(writerq) <= 1
    /\ Len(outlineq) <= 1
    /\ InFlight = HeldUpTo(MaxDocs)
    /\ InFlight <= ParserCap + WriterCap + ArchiveWorkers + ParseWorkers

\* both channels are full, an archive worker and a parse worker wait to send
C6_Witness ==
    /\ Len(parserq) = ParserCap /\ Len(writerq) = WriterCap
    /\ \E i \in ZipIds : pc[Zip(i)] = "send"
    /\ \E j \in XmlIds : pc[Xml(j)] = "send_writer"

(***************************************************************************)
(* C7  Writer finalization result, for either writer once it has called    *)
(* flush.  If no record was ever offered (no call of add_features, or only *)
(* calls with an empty list) and remove_file answers Ok or NotFound, flush *)
(* returns false and the file does not exist.  If at least one record was  *)
(* accepted and the write succeeds, flush returns true and the file is in  *)
(* place.  An error of the file system other than NotFound is the only     *)
(* way flush errors.                                                       *)
(***************************************************************************)
C7_FlushResult ==
    \A w \in Writers :
        flushed[w] # <<>> =>
            LET f == flushed[w][1] IN
            /\ (Offered(w) = 0 /\ f.io # "error") => (f.result = "false" /\ ~file[w])
            /\ (Accepted(w) >= 1 /\ f.io = "ok") => (f.result = "true" /\ file[w])
            /\ f.result = "err" => f.io = "error"

\* add_features was called with empty lists only, the file was already gone
\* when flush removed it, and flush returned false
C7_Witness ==
    /\ flushed["fgb"] # <<>>
    /\ flushed["fgb"][1] = [result |-> "false", io |-> "notfound"]
    /\ Written >= 1 /\ Offered("fgb") = 0

(***************************************************************************)
(* C8  Zero-parcel run.  When process_files has returned and no parcel was *)
(* offered to the writer, the output file does not exist, the result is    *)
(* Ok, and the result differs from every result of a run that produced a   *)
(* file.  process_files returns Ok(number of documents read) and nothing   *)
(* else reaches the caller, and a run that produced a file returns Ok(c)   *)
(* for some c >= 1.                                                        *)
(***************************************************************************)
ProducingReturns == {[status |-> "ok", count |-> c] : c \in 1..MaxDocs}

C8_ZeroParcelRun ==
    (mpc = "returned" /\ Offered("fgb") = 0) =>
        /\ ~file["fgb"]
        /\ ret.status = "ok"
        /\ ret \notin ProducingReturns

(***************************************************************************)
(* C9  Final count.  The number process_files returns is the number of     *)
(* documents that parsed successfully and whose records were all appended. *)
(***************************************************************************)
Contributed(d) ==
    /\ ParsedOk(d)
    /\ wlog["fgb"][d] # <<>>
    /\ wlog["fgb"][d][1].k = wlog["fgb"][d][1].n

C9_FinalCount ==
    mpc = "returned" => ret.count = Cardinality({d \in Docs : Contributed(d)})

(***************************************************************************)
(* C10  No document content aborts the batch: parse_xml_content ends in a  *)
(* panic for no document a parse worker takes.                             *)
(***************************************************************************)
C10_NoParsePanic == \A d \in Docs : parseRes[d].tag # "panic"

(***************************************************************************)
(* C11  An output-file write failure is fatal: when appending the records  *)
(* of a document has failed (add_features returned Err, fewer records were *)
(* appended than offered), process_files does not return Ok.               *)
(***************************************************************************)
AppendFailed(w) ==
    \E k \in 1..Len(Entries(w, MaxDocs)) :
        Entries(w, MaxDocs)[k].k < Entries(w, MaxDocs)[k].n

C11_AppendFailureIsFatal == AppendFailed("fgb") => mpc # "returned"


(***************************************************************************)
(* The reader (reader.rs): what an archive worker gets from one input      *)
(* path.  An archive is the sequence of its entries; what can go wrong     *)
(* with an entry is a property of the entry.                               *)
(***************************************************************************)
MaxEntries == 2
MaxReadPaths == 2

\* FileData (reader.rs:7): the contents play no part here
FileData(name) == [file_name |-> name]

\* faulty variant: the extension is compared as it is written
to_lowercase_not(s) == s

\* str::to_lowercase, on the extensions that occur
to_lowercase(s) ==
    IF s \in {"XML", "Xml"} THEN "xml"
    ELSE IF s \in {"ZIP", "Zip"} THEN "zip"
    ELSE IF s = "TXT" THEN "txt"
    ELSE s

\* path.extension().and_then(..).map(|s| s.to_lowercase())  (reader.rs:23-26, 97-100)
lower_ext(p) == IF IsSome(p.ext) THEN Some(to_lowercase(Get(p.ext))) ELSE None

Entry(ext, index_ok, enclosed, is_dir, copy_ok, archive_ok, name, entries) ==
    [ext |-> Some(ext), index_ok |-> index_ok, enclosed |-> enclosed,
     is_dir |-> is_dir, copy_ok |-> copy_ok, archive_ok |-> archive_ok,
     name |-> name, entries |-> entries]

XmlEntry(name) == Entry("xml", TRUE, TRUE, FALSE, TRUE, TRUE, name, <<>>)
UnreadableXmlEntry == Entry("xml", TRUE, TRUE, FALSE, FALSE, TRUE, "u.xml", <<>>)
CorruptEntry == Entry("xml", FALSE, TRUE, FALSE, TRUE, TRUE, "c.xml", <<>>)
UpperXmlEntry == Entry("XML", TRUE, TRUE, FALSE, TRUE, TRUE, "G.XML", <<>>)
NoExtEntry == [XmlEntry("zip") EXCEPT !.ext = None]
CorruptOtherEntry == Entry("txt", FALSE, TRUE, FALSE, TRUE, TRUE, "locked.txt", <<>>)
UnsafeEntry == Entry("xml", TRUE, FALSE, FALSE, TRUE, TRUE, "../e.xml", <<>>)
OtherEntry == Entry("txt", TRUE, TRUE, FALSE, TRUE, TRUE, "readme.txt", <<>>)
ZipDirEntry == Entry("zip", TRUE, TRUE, TRUE, TRUE, TRUE, "d.zip", <<>>)
ZipEntry(entries) == Entry("zip", TRUE, TRUE, FALSE, TRUE, TRUE, "n.zip", entries)
NotAZipEntry == Entry("zip", TRUE, TRUE, FALSE, TRUE, FALSE, "x.zip", <<>>)
UnreadableZipEntry == Entry("zip", TRUE, TRUE, FALSE, FALSE, TRUE, "y.zip", <<>>)

\* ZipXmlIter (reader.rs:56-71)
ZipXmlIter(archive) == [archive |-> archive, index |-> 0, nested |-> None]

Yield(item, it) == [item |-> item, it |-> it]

\* faulty variant: an entry error ends the iteration of the archive
ErrItem_stop(kind, it) ==
    Yield(Some(Err(kind, "")), [it EXCEPT !.index = Len(it.archive)])

\* faulty variant: an entry error leaves the index on the entry that failed
ErrItem_again(kind, it) == Yield(Some(Err(kind, "")), [it EXCEPT !.index = @ - 1])

\* an error item leaves the iterator where it already was: one past the entry
ErrItem(kind, it) == Yield(Some(Err(kind, "")), it)

\* faulty variant: the nested iterator is not kept
hold_none(it, nested_it) == it

\* self.nested = Some(Box::new(nested_it))  (reader.rs:147)
hold(it, nested_it) == [it EXCEPT !.nested = Some(nested_it)]

\* ZipXmlIter::next (reader.rs:73-163)
RECURSIVE zip_next(_)
zip_next(it) ==
    IF IsSome(it.nested)
    THEN LET r == zip_next(Get(it.nested)) IN
         IF IsSome(r.item)
         THEN Yield(r.item, hold(it, r.it))
         ELSE zip_next([it EXCEPT !.nested = None])
    ELSE IF it.index >= Len(it.archive) THEN Yield(None, it)
    ELSE LET entry == it.archive[it.index + 1]
             it1 == [it EXCEPT !.index = @ + 1]
         IN  IF ~entry.index_ok THEN ErrItem("Zip", it1)
             ELSE IF ~entry.enclosed THEN zip_next(it1)
             ELSE IF lower_ext(entry) = Some("xml")
             THEN IF ~entry.copy_ok THEN ErrItem("Io", it1)
                  ELSE Yield(Some(Ok(FileData(entry.name))), it1)
             ELSE IF lower_ext(entry) = Some("zip") /\ ~entry.is_dir
             THEN IF ~entry.copy_ok THEN ErrItem("Io", it1)
                  ELSE IF ~entry.archive_ok THEN ErrItem("Zip", it1)
                  ELSE LET r == zip_next(ZipXmlIter(entry.entries)) IN
                       IF IsSome(r.item)
                       THEN Yield(r.item, hold(it1, r.it))
                       ELSE zip_next(it1)
             ELSE zip_next(it1)

\* an input path: its extension and what is behind it
XmlPath(name) == [ext |-> Some("xml"), opens |-> TRUE, name |-> name, entries |-> <<>>]
MissingXmlPath == [ext |-> Some("xml"), opens |-> FALSE, name |-> "m.xml", entries |-> <<>>]
ZipPath(entries) == [ext |-> Some("zip"), opens |-> TRUE, name |-> "a.zip", entries |-> entries]
MissingZipPath == [ext |-> Some("zip"), opens |-> FALSE, name |-> "m.zip", entries |-> <<>>]
OtherPath == [ext |-> Some("foo"), opens |-> FALSE, name |-> "m.foo", entries |-> <<>>]
\* a file that is there, named without an extension, and one named in capitals
NoExtPath == [ext |-> None, opens |-> TRUE, name |-> "xml", entries |-> <<>>]
UpperXmlPath == [ext |-> Some("XML"), opens |-> TRUE, name |-> "Q.XML", entries |-> <<>>]
UpperZipPath(entries) == [ext |-> Some("Zip"), opens |-> TRUE, name |-> "A.Zip", entries |-> entries]

\* read_xml_file (reader.rs:38-53)
read_xml_file(path) ==
    IF path.opens THEN Ok(FileData(path.name)) ELSE Err("Io", "")

\* read_zip_archive (reader.rs:166-170)
read_zip_archive(path) ==
    IF path.opens THEN Ok(ZipXmlIter(path.entries)) ELSE Err("Zip", "")

\* iter_xml_contents (reader.rs:20-36): items still to come of a once() or
\* an empty(), or the archive's iterator
iter_xml_contents(path) ==
    IF lower_ext(path) = Some("xml")
    THEN [once |-> <<read_xml_file(path)>>, zip |-> None]
    ELSE IF lower_ext(path) = Some("zip")
    THEN IF IsOk(read_zip_archive(path))
         THEN [once |-> <<>>, zip |-> Some(read_zip_archive(path).val)]
         ELSE [once |-> <<read_zip_archive(path)>>, zip |-> None]
    ELSE [once |-> <<>>, zip |-> None]

\* Iterator::next of what iter_xml_contents returned
iter_next(iter) ==
    IF IsSome(iter.zip)
    THEN LET r == zip_next(Get(iter.zip)) IN
         Yield(r.item, [iter EXCEPT !.zip = Some(r.it)])
    ELSE IF iter.once # <<>>
    THEN Yield(Some(Head(iter.once)), [iter EXCEPT !.once = Tail(@)])
    ELSE Yield(None, iter)

\* the entries and paths the reader is tried on
InnerArchive == <<XmlEntry("c.xml"), CorruptEntry, XmlEntry("d.xml")>>
DeepArchive == <<ZipEntry(<<CorruptEntry, XmlEntry("e.xml")>>), XmlEntry("f.xml")>>

SampleEntries ==
    {XmlEntry("a.xml"), XmlEntry("b.xml"), UnreadableXmlEntry, CorruptEntry,
     UnsafeEntry, OtherEntry, ZipDirEntry, NotAZipEntry, UnreadableZipEntry,
     UpperXmlEntry, NoExtEntry, CorruptOtherEntry,
     ZipEntry(<<>>), ZipEntry(InnerArchive), ZipEntry(DeepArchive)}

SeqsUpTo(S, n) == UNION {[1..k -> S] : k \in 0..n}

SamplePaths ==
    {XmlPath("p.xml"), MissingXmlPath, MissingZipPath, OtherPath, NoExtPath,
     UpperXmlPath, UpperZipPath(<<XmlEntry("a.xml")>>)}
        \cup {ZipPath(a) : a \in SeqsUpTo(SampleEntries, MaxEntries)}

(***************************************************************************)
(* An archive worker on its own (processor.rs:88-118): the paths it        *)
(* receives, one after the other, with a parse stage that takes every      *)
(* document.                                                               *)
(***************************************************************************)
ReaderInit ==
    /\ \E paths \in SeqsUpTo(SamplePaths, MaxReadPaths) :
          rd = [input |-> paths, paths |-> paths, pc |-> "recv",
                iter |-> iter_xml_contents(OtherPath),
                sent |-> <<>>, errors |-> 0]
    /\ pp = Idle
    /\ calculate_xml_outline = FALSE
    /\ file = [w \in Writers |-> FALSE]
    /\ PipelineInit

\* while let Ok(path) = xml_rx.recv(); iter_xml_contents(&path)
ReaderRecv ==
    /\ rd.pc = "recv"
    /\ rd.paths # <<>>
    /\ rd' = [rd EXCEPT !.paths = Tail(@), !.pc = "iter",
                        !.iter = iter_xml_contents(Head(rd.paths))]
    /\ UNCHANGED <<pvars, pp>>

\* one turn of `for item in iter_xml_contents(&path)`
ReaderItem ==
    /\ rd.pc = "iter"
    /\ LET r == iter_next(rd.iter) IN
       IF ~IsSome(r.item)
       THEN rd' = [rd EXCEPT !.pc = "recv", !.iter = r.it]
       ELSE IF IsOk(Get(r.item))
       THEN rd' = [rd EXCEPT !.iter = r.it,
                             !.sent = Append(@, Get(r.item).val.file_name)]
       ELSE rd' = [rd EXCEPT !.iter = r.it, !.errors = @ + 1]
    /\ UNCHANGED <<pvars, pp>>

\* the path channel is closed and empty
ReaderExit ==
    /\ rd.pc = "recv"
    /\ rd.paths = <<>>
    /\ rd' = [rd EXCEPT !.pc = "done"]
    /\ UNCHANGED <<pvars, pp>>

ReaderNext == ReaderRecv \/ ReaderItem \/ ReaderExit

SpecReader == ReaderInit /\ [][ReaderNext]_vars

\* the name of the path or entry ends in .xml, or .zip, in any letter case
IsXml(p) == p.ext \in {Some("xml"), Some("XML"), Some("Xml")}
IsZip(p) == p.ext \in {Some("zip"), Some("ZIP"), Some("Zip")}

\* the documents that can be read from the entries of an archive, in order
RECURSIVE ReadableIn(_)
ReadableIn(entries) ==
    IF entries = <<>> THEN <<>>
    ELSE LET e == Head(entries) IN
         (IF ~e.index_ok \/ ~e.enclosed \/ ~e.copy_ok THEN <<>>
          ELSE IF IsXml(e) THEN <<e.name>>
          ELSE IF IsZip(e) /\ ~e.is_dir /\ e.archive_ok
          THEN ReadableIn(e.entries)
          ELSE <<>>) \o ReadableIn(Tail(entries))

\* the entries of an archive that cannot be opened or read
RECURSIVE FailingIn(_)
FailingIn(entries) ==
    IF entries = <<>> THEN 0
    ELSE LET e == Head(entries) IN
         (IF ~e.index_ok THEN 1
          ELSE IF ~e.enclosed THEN 0
          ELSE IF IsXml(e) THEN (IF e.copy_ok THEN 0 ELSE 1)
          ELSE IF IsZip(e) /\ ~e.is_dir
          THEN (IF e.copy_ok /\ e.archive_ok THEN FailingIn(e.entries) ELSE 1)
          ELSE 0) + FailingIn(Tail(entries))

RECURSIVE ReadableFrom(_)
ReadableFrom(paths) ==
    IF paths = <<>> THEN <<>>
    ELSE LET p == Head(paths) IN
         (IF ~p.opens THEN <<>>
          ELSE IF IsXml(p) THEN <<p.name>>
          ELSE IF IsZip(p) THEN ReadableIn(p.entries)
          ELSE <<>>) \o ReadableFrom(Tail(paths))

RECURSIVE FailingFrom(_)
FailingFrom(paths) ==
    IF paths = <<>> THEN 0
    ELSE LET p == Head(paths) IN
         (IF IsXml(p) \/ IsZip(p)
          THEN (IF p.opens THEN FailingIn(p.entries) ELSE 1)
          ELSE 0) + FailingFrom(Tail(paths))

(* C12  Archive-level fault isolation: an error while opening or reading   *)
(* one input path or one entry of an archive is reported once and loses    *)
(* nothing else: when the archive worker has gone through its paths, it    *)
(* has reported every failing path and entry, and it has sent to the parse *)
(* stage every document that can be read from the paths and the archives   *)
(* (nested ones included), in their order.                                 *)
C12_ArchiveFaultIsolation ==
    (rd # Idle /\ rd.pc = "done") =>
        /\ rd.sent = ReadableFrom(rd.input)
        /\ rd.errors = FailingFrom(rd.input)

\* an archive with a failing entry between two readable ones, after a path
\* that cannot be opened, has been gone through
C12_Witness ==
    /\ rd # Idle
    /\ rd.pc = "done"
    /\ rd.input = <<MissingZipPath, ZipPath(<<ZipEntry(InnerArchive), XmlEntry("a.xml")>>)>>
    /\ rd.errors = 2
    /\ rd.sent = <<"c.xml", "d.xml", "a.xml">>


(* C13  Scheduling independence: what is appended depends on the inputs    *)
(* and not on the interleaving.  Whenever the process has ended, by        *)
(* process_files returning or by its panic, with a writer that has not     *)
(* failed, the output holds every document that parsed successfully, once, *)
(* with all the records of its parse, and nothing of any other document.   *)
C13_SchedulingIndependence ==
    (mpc \in {"returned", "panicked"} /\ pc[W("fgb")] # "panicked") =>
        \A d \in Docs :
            /\ ParsedOk(d) =>
                  /\ Len(wlog["fgb"][d]) = 1
                  /\ wlog["fgb"][d][1].n = parseRes[d].n
            /\ ~ParsedOk(d) => wlog["fgb"][d] = <<>>

\* the same two documents, one of them with an empty datum element, in two
\* interleavings: the good one was appended before the process ended ...
C13_AppendedBeforePanic ==
    /\ mpc = "panicked" /\ pc[W("fgb")] # "panicked"
    /\ parseRes[1] = [tag |-> "ok", n |-> 1] /\ parseRes[2].tag = "panic"
    /\ Len(wlog["fgb"][1]) = 1

\* ... and it was not
C13_LostAtPanic ==
    /\ mpc = "panicked" /\ pc[W("fgb")] # "panicked"
    /\ parseRes[1] = [tag |-> "ok", n |-> 1] /\ parseRes[2].tag = "panic"
    /\ wlog["fgb"][1] = <<>>


(***************************************************************************)
(* parse_xml_content on its own: the documents and options it is tried on, *)
(* and the records of a parsed document on their way into the output       *)
(* (FGBWriter::add_features).                                              *)
(***************************************************************************)
MaxFudes == 2

Refs(ids) == [k \in 1..Len(ids) |-> Some(ids[k])]

\* a GM_Surface with one patch of one polygon; `interiors` holds, for every
\* GM_SurfaceBoundary.interior, the curve ids of each of its child elements
SurfaceWith(id, exterior, interiors) ==
    [id |-> Some(id),
     polygons |-> <<[exterior |-> Some(Refs(exterior)),
                     interiors |-> [k \in 1..Len(interiors) |->
                                      [m \in 1..Len(interiors[k]) |->
                                          Refs(interiors[k][m])]]]>>]

Square == <<"C1", "C2", "C3", "C4">>
HoleD == <<"D1", "D2", "D3">>
HoleE == <<"E1", "E2", "E3">>

\* a square with two triangles inside; S1 has no hole, S2 one, S3 two in two
\* interior boundaries, S4 two in one interior boundary, S5 an interior
\* boundary without a ring
SquareSpace ==
    [points |-> <<PointDecl("P1", 0, 0), PointDecl("P2", 6, 0), PointDecl("P3", 6, 7),
                  PointDecl("P4", 0, 7), PointDecl("H1", 1, 1), PointDecl("H2", 2, 1),
                  PointDecl("H3", 1, 3), PointDecl("G1", 4, 4), PointDecl("G2", 5, 4),
                  PointDecl("G3", 4, 6)>>,
     curves |-> <<CurveDecl("C1", "P1"), CurveDecl("C2", "P2"), CurveDecl("C3", "P3"),
                  CurveDecl("C4", "P4"), CurveDecl("D1", "H1"), CurveDecl("D2", "H2"),
                  CurveDecl("D3", "H3"), CurveDecl("E1", "G1"), CurveDecl("E2", "G2"),
                  CurveDecl("E3", "G3")>>,
     surfaces |-> <<SurfaceWith("S1", Square, <<>>),
                    SurfaceWith("S2", Square, <<<<HoleD>>>>),
                    SurfaceWith("S3", Square, <<<<HoleD>>, <<HoleE>>>>),
                    SurfaceWith("S4", Square, <<<<HoleD, HoleE>>>>),
                    SurfaceWith("S5", Square, <<<<>>>>)>>]

\* a curve refers to a point that is not declared
DanglingPointSpace == [SquareSpace EXCEPT !.curves[7] = CurveDecl("D3", "H9")]
\* an exterior ring refers to a curve that is not declared
DanglingExteriorSpace ==
    [SquareSpace EXCEPT !.surfaces[5] = SurfaceWith("S5", <<"C1", "C9", "C3">>, <<>>)]
\* an interior ring refers to a curve that is not declared
DanglingInteriorSpace ==
    [SquareSpace EXCEPT !.surfaces[5] = SurfaceWith("S5", Square, <<<<<<"D1", "D9", "D3">>>>>>)]

\* a point outside the range of the projection, in a space whose surfaces
\* resolve and in one with an interior ring that names an undeclared curve
FarSpace == [SquareSpace EXCEPT !.points[3] = PointDecl("P3", 6, ProjRange + 2)]
FarDanglingSpace ==
    [DanglingInteriorSpace EXCEPT !.points[3] = PointDecl("P3", 6, ProjRange + 2)]

SampleSpaces ==
    {SquareSpace, DanglingPointSpace, DanglingExteriorSpace, DanglingInteriorSpace}

\* a parcel: its id, the surface its keijo element names (no such element for
\* None) and the text of its chiban element (no such element for None)
FudeOf(id, surface, chiban_text) ==
    [id |-> Some(id),
     entries |->
        <<[name |-> "oaza_code", idref |-> None, text |-> Some(<<"0", "0", "1">>)]>>
        \o (IF IsSome(chiban_text)
            THEN <<[name |-> "chiban", idref |-> None, text |-> chiban_text]>>
            ELSE <<>>)
        \o (IF IsSome(surface)
            THEN <<[name |-> "keijo", idref |-> surface, text |-> None]>>
            ELSE <<>>)]

SampleSurfaceRefs ==
    {Some("S1"), Some("S2"), Some("S3"), Some("S4"), Some("S5"), Some("S9"), None}
SampleChiban ==
    {Some(<<"1", "2">>), Some(chikugai \o <<"1">>), Some(<<"1">> \o betsuzu), None}

FudeId(k) == IF k = 1 THEN "F1" ELSE IF k = 2 THEN "F2" ELSE IF k = 3 THEN "F3" ELSE "F4"

\* the parcels of a document: up to MaxFudes, with the ids F1, F2, ...
SampleFudes ==
    {[k \in 1..Len(q) |-> FudeOf(FudeId(k), q[k][1], q[k][2])] :
        q \in SeqsUpTo(SampleSurfaceRefs \X SampleChiban, MaxFudes)}

SampleCrs ==
    {"kokyo_zahyo_1_kei", "kokyo_zahyo_19_kei", "ninni_zahyokei", "WGS84",
     "kokyo_zahyo_20_kei", "kokyo_zahyo_0_kei", "JGD2011"}

TwoParcels == <<FudeOf("F1", Some("S2"), Some(<<"1", "2">>)),
                FudeOf("F2", Some("S1"), Some(<<"3">>))>>

\* the header of a document, well formed or not
SampleHeaders ==
    {ParcelDoc, BadCodeDoc, EmptyDatumDoc, MalformedDoc,
     [ParcelDoc EXCEPT !.chizumei = None],
     [ParcelDoc EXCEPT !.sokuchikei_hanbetsu = None]}

\* the texts of a numeric-coded attribute: no element (None), an element
\* without text, and texts that are and are not a u32
SampleCodes ==
    {None, Some(None), Some(Some(<<"0", "0", "7">>)), Some(Some(<<"1", "2", "a">>)),
     Some(Some(<<"-", "1">>)), Some(Some(<<"+", "5">>)), Some(Some(<<"1", ".", "0">>)),
     Some(Some(U32MaxDigits)), Some(Some(<<"4", "2", "9", "4", "9", "6", "7", "2", "9", "6">>))}

CodeNames == <<"oaza_code", "chome_code", "koaza_code", "yobi_code">>

\* a parcel on S1 with lot number 1 and these four codes
CodedFude(id, codes) ==
    [id |-> Some(id),
     entries |->
        Flatten([k \in 1..4 |->
                    IF IsSome(codes[k])
                    THEN <<[name |-> CodeNames[k], idref |-> None, text |-> Get(codes[k])]>>
                    ELSE <<>>])
        \o <<[name |-> "chiban", idref |-> None, text |-> Some(<<"1">>)],
              [name |-> "keijo", idref |-> Some("S1"), text |-> None]>>]

CodedDocs ==
    {[ParcelDoc EXCEPT !.kukan_zokusei = Some(SquareSpace),
                       !.shudai_zokusei = Some(<<CodedFude("F1", <<a, b, b, a>>)>>)] :
        a \in SampleCodes, b \in SampleCodes}

\* a parcel with every optional attribute
FullFude ==
    [id |-> Some("F1"),
     entries |-> <<[name |-> "seido_kubun", idref |-> None, text |-> Some("kou2")],
                   [name |-> "oaza_code", idref |-> None, text |-> Some(<<"0", "1">>)],
                   [name |-> "chome_code", idref |-> None, text |-> Some(<<"2">>)],
                   [name |-> "koaza_code", idref |-> None, text |-> Some(<<"0">>)],
                   [name |-> "yobi_code", idref |-> None, text |-> Some(<<"3">>)],
                   [name |-> "oaza_mei", idref |-> None, text |-> Some("oaza")],
                   [name |-> "chome_mei", idref |-> None, text |-> Some("chome")],
                   [name |-> "koaza_mei", idref |-> None, text |-> None],
                   [name |-> "yobi_mei", idref |-> None, text |-> Some("yobi")],
                   [name |-> "chiban", idref |-> None, text |-> Some(<<"1">>)],
                   [name |-> "zahyochi_shubetsu", idref |-> None, text |-> Some("sokuryo")],
                   [name |-> "hikkai_mitei_koseihitsu", idref |-> None, text |-> Some("1+2")],
                   [name |-> "keijo", idref |-> Some("S1"), text |-> None]>>]

FullDoc == [ParcelDoc EXCEPT !.kukan_zokusei = Some(SquareSpace),
                             !.shudai_zokusei = Some(<<FullFude>>)]

ParseDocs ==
    SampleDocs
    \cup CodedDocs
    \cup {FullDoc}
    \cup {[ParcelDoc EXCEPT !.kukan_zokusei = Some(s),
                            !.shudai_zokusei = Some(TwoParcels),
                            !.zahyokei = Elem(c)] :
            s \in {FarSpace, FarDanglingSpace},
            c \in {"kokyo_zahyo_2_kei", "ninni_zahyokei"}}
    \cup {[ParcelDoc EXCEPT !.kukan_zokusei = Some(SquareSpace),
                            !.shudai_zokusei = Some(f),
                            !.zahyokei = Elem(c)] :
            f \in SampleFudes, c \in {"kokyo_zahyo_2_kei", "ninni_zahyokei"}}
    \cup {[h EXCEPT !.kukan_zokusei = Some(s),
                    !.shudai_zokusei = Some(TwoParcels),
                    !.zahyokei = Elem(c)] :
            h \in SampleHeaders, s \in SampleSpaces, c \in SampleCrs}

\* writer.rs:41-84  the columns FGBWriter::new declares, in their order
Columns ==
    <<"chizumei", "shikuchoson_code", "shikuchoson_mei", "zahyokei",
      "sokuchikei_hanbetsu", "fude_id", "seido_kubun", "oaza_code", "chome_code",
      "koaza_code", "yobi_code", "oaza_mei", "chome_mei", "koaza_mei", "yobi_mei",
      "chiban", "zahyochi_shubetsu", "hikkai_mitei_koseihitsu">>

\* writer.rs:100-178  the calls feat.property(idx, name, value) of one record,
\* in their order: the index, the field, and whether the call is made for
\* every record or under `if let Some(v)`
PropertyCalls ==
    <<[idx |-> 0, field |-> "chizumei", always |-> TRUE],
      [idx |-> 1, field |-> "shikuchoson_code", always |-> TRUE],
      [idx |-> 2, field |-> "shikuchoson_mei", always |-> TRUE],
      [idx |-> 3, field |-> "zahyokei", always |-> TRUE],
      [idx |-> 4, field |-> "sokuchikei_hanbetsu", always |-> FALSE],
      [idx |-> 5, field |-> "fude_id", always |-> TRUE],
      [idx |-> 6, field |-> "seido_kubun", always |-> FALSE],
      [idx |-> 7, field |-> "oaza_code", always |-> FALSE],
      [idx |-> 8, field |-> "chome_code", always |-> FALSE],
      [idx |-> 9, field |-> "koaza_code", always |-> FALSE],
      [idx |-> 10, field |-> "yobi_code", always |-> FALSE],
      [idx |-> 11, field |-> "oaza_mei", always |-> FALSE],
      [idx |-> 12, field |-> "chome_mei", always |-> FALSE],
      [idx |-> 13, field |-> "koaza_mei", always |-> FALSE],
      [idx |-> 14, field |-> "yobi_mei", always |-> FALSE],
      [idx |-> 15, field |-> "chiban", always |-> FALSE],
      [idx |-> 16, field |-> "zahyochi_shubetsu", always |-> FALSE],
      [idx |-> 17, field |-> "hikkai_mitei_koseihitsu", always |-> FALSE]>>

\* faulty variant: an absent field is written as the empty string
property_or_default(row, call, feature) ==
    [row EXCEPT ![call.idx + 1] =
        IF call.always THEN Some(feature[call.field])
        ELSE IF IsSome(feature[call.field]) THEN feature[call.field]
        ELSE Some("")]

\* one feat.property(..) of writer.rs:100-178, or none for an absent field:
\* the column of that index gets the value
property(row, call, feature) ==
    IF call.always THEN [row EXCEPT ![call.idx + 1] = Some(feature[call.field])]
    ELSE IF IsSome(feature[call.field])
    THEN [row EXCEPT ![call.idx + 1] = Some(Get(feature[call.field]))]
    ELSE row

\* the properties of one record: every column null, then the calls in order
RECURSIVE properties_from(_, _, _)
properties_from(calls, row, feature) ==
    IF calls = <<>> THEN row
    ELSE properties_from(Tail(calls), property(row, Head(calls), feature), feature)

\* writer.rs:98-179  what add_feature_geom is given for one feature
add_feature_geom(feature) ==
    [geometry |-> feature.geometry,
     props |-> properties_from(PropertyCalls, [k \in 1..Len(Columns) |-> None], feature)]

ParseInit ==
    /\ \E d \in ParseDocs, o \in ParseOptions :
          pp = [file_data |-> [file_name |-> "doc.xml", contents |-> d],
                opts |-> o, pc |-> "call", result |-> None, out |-> <<>>,
                rows |-> <<>>]
    /\ rd = Idle
    /\ calculate_xml_outline = FALSE
    /\ file = [w \in Writers |-> FALSE]
    /\ PipelineInit

\* processor.rs:135  parse_xml_content(&file, &parse_options)
ParseCall ==
    /\ pp.pc = "call"
    /\ LET r == parse_xml_content(pp.file_data, pp.opts) IN
       pp' = [pp EXCEPT !.result = Some(r),
                        !.pc = IF IsOk(r) THEN "write" ELSE r.tag]
    /\ UNCHANGED <<pvars, rd>>

\* writer.rs:94-183  one turn of `for feature in features`: the record is
\* appended, or add_feature_geom fails and the call ends
AppendRecord ==
    /\ pp.pc = "write"
    /\ Len(pp.out) < Len(Get(pp.result).val.features)
    /\ \/ pp' = [pp EXCEPT
                    !.out = Append(@, Get(pp.result).val.features[Len(pp.out) + 1]),
                    !.rows = Append(@, add_feature_geom(
                                 Get(pp.result).val.features[Len(pp.out) + 1]))]
       \/ pp' = [pp EXCEPT !.pc = "write_failed"]
    /\ UNCHANGED <<pvars, rd>>

\* the loop is through: Ok(())
AppendDone ==
    /\ pp.pc = "write"
    /\ Len(pp.out) = Len(Get(pp.result).val.features)
    /\ pp' = [pp EXCEPT !.pc = "done"]
    /\ UNCHANGED <<pvars, rd>>

ParseNext == ParseCall \/ AppendRecord \/ AppendDone

SpecParse == ParseInit /\ [][ParseNext]_vars


\* the curves of a document as parse_surfaces gets them
CurveTable(file_data) ==
    LET root == file_data.contents
        spatial_element == Get(root.kukan_zokusei)
        points == parse_points(spatial_element)
        curves == parse_curves(spatial_element, points.val)
        crs == get_proj(child_text(root.zahyokei, "zahyokei").val)
    IN  IF IsSome(crs.val) THEN transform_curves_crs(curves.val, Get(crs.val)).val
        ELSE curves.val

\* the declaration of the parcel with this id, and of the surface it names
FudeNamed(root, id) ==
    LET fudes == Get(root.shudai_zokusei) IN
    fudes[CHOOSE k \in 1..Len(fudes) : fudes[k].id = Some(id)]

PolygonOf(root, fude) ==
    LET surfaces == Get(root.kukan_zokusei).surfaces
        keijo == fude.entries[CHOOSE k \in 1..Len(fude.entries) :
                                 fude.entries[k].name = "keijo"]
    IN  surfaces[CHOOSE k \in 1..Len(surfaces) : surfaces[k].id = keijo.idref].polygons[1]

\* the ring lists the coordinates of the curves its references name, in order
RingFollows(ring, refs, table) ==
    /\ Len(ring) >= Len(refs)
    /\ \A k \in 1..Len(refs) : ring[k] = table[Get(refs[k])]

\* the result of a successful parse is there
Parsed == pp # Idle /\ pp.pc \in {"write", "write_failed", "done"}

Arbitrary == pp # Idle /\ pp.file_data.contents.zahyokei = Elem("ninni_zahyokei")

\* the document is XML and parse_common_properties accepts its header
HeaderOk ==
    /\ pp.file_data.contents.wellformed
    /\ IsOk(parse_common_properties(pp.file_data.contents))

\* the coordinate a curve declares, through the point it refers to
DeclaredPos(root, curve_id) ==
    LET sp == Get(root.kukan_zokusei)
        c == sp.curves[CHOOSE k \in 1..Len(sp.curves) : sp.curves[k].id = Some(curve_id)]
        point_id == Get(Get(Get(c.pos).ref))
        p == sp.points[CHOOSE k \in 1..Len(sp.points) : sp.points[k].id = Some(point_id)]
    IN  Pt(Get(Get(Get(p.pos).x)).v, Get(Get(Get(p.pos).y)).v)

\* every coordinate of the ring is the declared one with the axes swapped
RingAsDeclared(ring, refs, root) ==
    /\ Len(ring) >= Len(refs)
    /\ \A k \in 1..Len(refs) :
          ring[k] = Pt(DeclaredPos(root, Get(refs[k])).y, DeclaredPos(root, Get(refs[k])).x)

AllAsDeclared ==
    LET features == Get(pp.result).val.features
        root == pp.file_data.contents
    IN  \A i \in 1..Len(features) :
           LET polygon == PolygonOf(root, FudeNamed(root, features[i].fude_id))
               children == Flatten(polygon.interiors)
           IN  /\ RingAsDeclared(features[i].geometry.exterior, Get(polygon.exterior), root)
               /\ \A m \in 1..Len(children) :
                     RingAsDeclared(features[i].geometry.interiors[m], children[m], root)

(* C15 as stated  Arbitrary coordinate system: for every document that     *)
(* names the arbitrary system, parse_xml_content with arbitrary-CRS        *)
(* inclusion disabled returns success with zero records whatever the rest  *)
(* of the document contains.                                               *)
C15_AsStated ==
    (Arbitrary /\ ~pp.opts.include_arbitrary_crs /\ pp.pc # "call") =>
        /\ IsOk(Get(pp.result))
        /\ Get(pp.result).val.features = <<>>

(* C15  Arbitrary coordinate system: for every document that names the     *)
(* arbitrary system and whose header parse_common_properties accepts,      *)
(* parse_xml_content with arbitrary-CRS inclusion disabled returns success *)
(* with zero records whatever the spatial and subject attributes contain;  *)
(* with inclusion enabled every coordinate of every record is the declared *)
(* coordinate with the axes swapped.                                       *)
C15_ArbitraryCrs ==
    /\ (Arbitrary /\ HeaderOk /\ ~pp.opts.include_arbitrary_crs /\ pp.pc # "call") =>
          /\ IsOk(Get(pp.result))
          /\ Get(pp.result).val.features = <<>>
    /\ (Arbitrary /\ pp.opts.include_arbitrary_crs /\ Parsed) => AllAsDeclared

\* a document in the arbitrary system with a dangling reference is an empty
\* success with inclusion disabled, and two parcels with their declared
\* coordinates come out with inclusion enabled
C15_Witness ==
    /\ Arbitrary /\ HeaderOk /\ pp.pc = "done"
    /\ \/ /\ ~pp.opts.include_arbitrary_crs
          /\ Get(pp.file_data.contents.kukan_zokusei) = DanglingPointSpace
       \/ /\ pp.opts.include_arbitrary_crs
          /\ Len(pp.out) = 2
          /\ pp.out[1].geometry.exterior = <<Pt(0, 0), Pt(0, 6), Pt(7, 6), Pt(7, 0), Pt(0, 0)>>


\* the names the enumeration is said to hold: the sentinel and the nineteen
\* regional systems
Enumerated ==
    {"ninni_zahyokei"} \cup {PROJ_STRS[k] : k \in 2..Len(PROJ_STRS)}

(* C16  Closed coordinate-system enumeration: get_proj accepts the         *)
(* sentinel (no projection) and the nineteen regional names (a projection  *)
(* each) and nothing else: for a document with an accepted header that     *)
(* names any other coordinate system, parse_xml_content fails with         *)
(* UnsupportedCrs carrying that name.                                      *)
C16_ClosedEnumeration ==
    /\ \A name \in Enumerated :
          /\ IsOk(get_proj(name))
          /\ IsSome(get_proj(name).val) <=> name # "ninni_zahyokei"
    /\ (pp # Idle /\ HeaderOk /\ pp.pc # "call") =>
          LET name == Get(Get(pp.file_data.contents.zahyokei)) IN
          name \notin Enumerated =>
              Get(pp.result) = Err("UnsupportedCrs", name)


\* the ids a sequence of declarations declares
Declared(decls) == {Get(decls[k].id) : k \in 1..Len(decls)}

\* the point ids the curves refer to and no point declares
MissingPoints(sp) ==
    {Get(Get(Get(sp.curves[k].pos).ref)) : k \in 1..Len(sp.curves)} \ Declared(sp.points)

\* the curve ids the rings of the surfaces refer to and no curve declares
RingRefs(polygon) ==
    {Get(Get(polygon.exterior)[k]) : k \in 1..Len(Get(polygon.exterior))}
        \cup UNION {{Get(ring[k]) : k \in 1..Len(ring)} :
                      ring \in {Flatten(polygon.interiors)[m] :
                                   m \in 1..Len(Flatten(polygon.interiors))}}

MissingCurves(sp) ==
    UNION {RingRefs(sp.surfaces[k].polygons[1]) : k \in 1..Len(sp.surfaces)}
        \ Declared(sp.curves)

\* the coordinate system is one get_proj accepts
CrsAccepted == IsOk(get_proj(Get(Get(pp.file_data.contents.zahyokei))))

\* parse_xml_content gets as far as the spatial attributes
GeometryRead ==
    /\ HeaderOk /\ CrsAccepted
    /\ \/ IsSome(get_proj(Get(Get(pp.file_data.contents.zahyokei))).val)
       \/ pp.opts.include_arbitrary_crs

\* the parse failed with a not-found error that carries one of these ids
NotFoundOneOf(ids) ==
    /\ pp.pc = "err" /\ pp.out = <<>>
    /\ \E id \in ids : Get(pp.result) = Err("PointNotFound", id)

UnresolvedFails ==
    LET sp == Get(pp.file_data.contents.kukan_zokusei) IN
    /\ MissingPoints(sp) # {} => NotFoundOneOf(MissingPoints(sp))
    /\ (MissingPoints(sp) = {} /\ MissingCurves(sp) # {}) => NotFoundOneOf(MissingCurves(sp))

\* the curves of the document, all resolved, are in the arbitrary system or
\* every one of them can be reprojected
Reprojects ==
    LET root == pp.file_data.contents
        sp == Get(root.kukan_zokusei)
        crs == get_proj(Get(Get(root.zahyokei))).val
        curves == parse_curves(sp, parse_points(sp).val).val
    IN  IsSome(crs) => \A c \in DOMAIN curves : IsSome(proj_transform(Get(crs), curves[c]))

\* as UnresolvedFails, for the curve ids when the reprojection does not fail
UnresolvedFailsInOrder ==
    LET sp == Get(pp.file_data.contents.kukan_zokusei) IN
    /\ MissingPoints(sp) # {} => NotFoundOneOf(MissingPoints(sp))
    /\ (MissingPoints(sp) = {} /\ MissingCurves(sp) # {} /\ Reprojects)
          => NotFoundOneOf(MissingCurves(sp))

OutsideTableRejected ==
    (pp # Idle /\ pp.pc # "call" /\ HeaderOk) =>
        LET name == Get(Get(pp.file_data.contents.zahyokei)) IN
        name \notin (Enumerated \cup {"WGS84"}) =>
            Get(pp.result) = Err("UnsupportedCrs", name)


\* the parcel has no keijo element, or its idref names no surface
NoSurface(root, fude) ==
    \A k \in 1..Len(fude.entries) :
        fude.entries[k].name = "keijo" =>
            Get(fude.entries[k].idref) \notin Declared(Get(root.kukan_zokusei).surfaces)

(* C18  A missing surface reference is a hard failure, not a skip:         *)
(* whatever the lot numbers and the filter options, a document whose       *)
(* spatial attributes are read and in which some parcel has no shape       *)
(* element, or a shape element that names no surface, fails to parse.      *)
C18_MissingSurfaceFails ==
    (pp # Idle /\ pp.pc # "call" /\ GeometryRead) =>
        LET root == pp.file_data.contents
            fudes == Get(root.shudai_zokusei)
        IN  (\E k \in 1..Len(fudes) : NoSurface(root, fudes[k])) =>
                ~IsOk(Get(pp.result))

\* with outside-district inclusion enabled such a document does fail
C18_FailsWhenIncluded ==
    /\ pp # Idle /\ pp.pc = "err" /\ GeometryRead /\ pp.opts.include_chikugai
    /\ Get(pp.result) = Err("MissingElement", "geometry")


\* the lot number of a parcel, when it has one
HasChiban(fude) == \E k \in 1..Len(fude.entries) : fude.entries[k].name = "chiban"
ChibanOf(fude) ==
    Get(fude.entries[CHOOSE k \in 1..Len(fude.entries) :
                        fude.entries[k].name = "chiban"].text)

\* the marker occurs somewhere in the text
Occurs(marker, t) ==
    \E k \in 0..Len(t) :
        /\ k + Len(marker) <= Len(t)
        /\ \A i \in 1..Len(marker) : t[k + i] = marker[i]

Marked(fude) == Occurs(chikugai, ChibanOf(fude)) \/ Occurs(betsuzu, ChibanOf(fude))

(* C19  Exclusion filter: with outside-district inclusion disabled, a      *)
(* document with a parcel that has no lot number fails, and the parcels    *)
(* emitted by a successful parse are exactly those whose lot number        *)
(* contains neither marker; with inclusion enabled a successful parse      *)
(* emits every parcel, with or without a lot number.                       *)
C19_ExclusionFilter ==
    (pp # Idle /\ pp.pc # "call" /\ GeometryRead) =>
        LET root == pp.file_data.contents
            fudes == Get(root.shudai_zokusei)
            all == {fudes[k] : k \in 1..Len(fudes)}
            result == Get(pp.result)
            emitted == {result.val.features[i].fude_id :
                           i \in 1..Len(result.val.features)}
        IN  /\ (~pp.opts.include_chikugai /\ \E f \in all : ~HasChiban(f)) => ~IsOk(result)
            /\ (~pp.opts.include_chikugai /\ IsOk(result)) =>
                  /\ emitted = {Get(f.id) : f \in {g \in all : ~Marked(g)}}
                  /\ Len(result.val.features) = Cardinality(emitted)
            /\ (pp.opts.include_chikugai /\ IsOk(result)) =>
                  /\ emitted = {Get(f.id) : f \in all}
                  /\ Len(result.val.features) = Cardinality(emitted)

\* of two parcels the one marked as a separate drawing is left out
C19_Witness ==
    /\ pp # Idle /\ pp.pc = "done" /\ GeometryRead /\ ~pp.opts.include_chikugai
    /\ Len(Get(pp.file_data.contents.shudai_zokusei)) = 2
    /\ ChibanOf(Get(pp.file_data.contents.shudai_zokusei)[1]) = <<"1">> \o betsuzu
    /\ Len(pp.out) = 1 /\ pp.out[1].fude_id = "F2"

\* with inclusion enabled a marked parcel and one without a lot number come out
C19_IncludedWitness ==
    /\ pp # Idle /\ pp.pc = "done" /\ GeometryRead /\ pp.opts.include_chikugai
    /\ Len(pp.out) = 2
    /\ pp.out[1].chiban = Some(chikugai \o <<"1">>)
    /\ pp.out[2].chiban = None


\* the child elements of the interior boundaries of a polygon, counted
RECURSIVE ChildCount(_)
ChildCount(interiors) ==
    IF interiors = <<>> THEN 0 ELSE Len(Head(interiors)) + ChildCount(Tail(interiors))

\* the surface of the parcel record i, as declared
DeclaredPolygon(i) ==
    PolygonOf(pp.file_data.contents,
              FudeNamed(pp.file_data.contents, Get(pp.result).val.features[i].fude_id))

(* C20 as stated  Hole count: the number of interior rings of every        *)
(* assembled polygon equals the number of interior-boundary declarations   *)
(* of the surface's consumed polygon.                                      *)
C20_AsStated ==
    Parsed =>
        \A i \in 1..Len(Get(pp.result).val.features) :
            Len(Get(pp.result).val.features[i].geometry.interiors)
                = Len(DeclaredPolygon(i).interiors)

(* C20  Hole count: every assembled polygon has one exterior ring, and its *)
(* number of interior rings is the number of child elements of the         *)
(* interior-boundary declarations of the surface's consumed polygon, zero  *)
(* included; it is the number of declarations when every declaration       *)
(* holds exactly one ring element.                                         *)
C20_HoleCount ==
    Parsed =>
        \A i \in 1..Len(Get(pp.result).val.features) :
            LET geometry == Get(pp.result).val.features[i].geometry
                declared == DeclaredPolygon(i).interiors
            IN  /\ DOMAIN geometry = {"exterior", "interiors"}
                /\ Len(geometry.exterior) >= Len(Get(DeclaredPolygon(i).exterior))
                /\ Len(geometry.interiors) = ChildCount(declared)
                /\ (\A k \in 1..Len(declared) : Len(declared[k]) = 1) =>
                      Len(geometry.interiors) = Len(declared)

\* parcels on the surface with two interior boundaries and on the surface
\* with none
C20_Witness ==
    /\ Parsed /\ pp.pc = "done" /\ Len(pp.out) = 2
    /\ Len(DeclaredPolygon(1).interiors) = 2
    /\ Len(pp.out[1].geometry.interiors) = 2
    /\ DeclaredPolygon(2).interiors = <<>>
    /\ pp.out[2].geometry.interiors = <<>>


\* the documents an archive iterator in this state has yielded: those of the
\* entries before the one whose nested archive it is in, then what the
\* nested iterator has yielded
RECURSIVE YieldedBy(_)
YieldedBy(it) ==
    IF IsSome(it.nested)
    THEN ReadableIn(SubSeq(it.archive, 1, it.index - 1)) \o YieldedBy(Get(it.nested))
    ELSE ReadableIn(SubSeq(it.archive, 1, it.index))

\* the paths the worker is through with, and the one it is at
PathsDone ==
    SubSeq(rd.input, 1, Len(rd.input) - Len(rd.paths) - (IF rd.pc = "iter" THEN 1 ELSE 0))
PathAt == rd.input[Len(rd.input) - Len(rd.paths)]

\* the iterator holds nested iterators down to this depth
RECURSIVE NestingDepth(_)
NestingDepth(it) == IF IsSome(it.nested) THEN 1 + NestingDepth(Get(it.nested)) ELSE 0

(* C21  Depth-first archive scan: at every moment of the scan the          *)
(* documents yielded so far are, in order and each once, those of the      *)
(* entries before the current one and, when the current entry is a nested  *)
(* archive, those its iterator has yielded so far: nothing of a later      *)
(* entry is yielded before a nested archive, at any depth, is through.     *)
C21_DepthFirst ==
    (rd # Idle) =>
        rd.sent = ReadableFrom(PathsDone) \o
                  (IF rd.pc # "iter" THEN <<>>
                   ELSE IF IsSome(rd.iter.zip) THEN YieldedBy(Get(rd.iter.zip))
                   ELSE IF rd.iter.once = <<>> THEN ReadableFrom(<<PathAt>>)
                   ELSE <<>>)

\* inside an archive nested in a nested archive, after its document and
\* before the document that follows the nested archive
C21_Witness ==
    /\ rd # Idle /\ rd.pc = "iter" /\ IsSome(rd.iter.zip)
    /\ Get(rd.iter.zip).archive = <<ZipEntry(DeepArchive), XmlEntry("a.xml")>>
    /\ NestingDepth(Get(rd.iter.zip)) = 2
    /\ rd.sent = <<"e.xml">>


NotXmlNorZip(e) == ~IsXml(e) /\ ~IsZip(e)
XmlOrZip(e) == ~NotXmlNorZip(e)
XmlOrZipOrCorrupt(e) == ~e.index_ok \/ XmlOrZip(e)

\* what iter_xml_contents yields for a path, other than for the entries of
\* an archive that opens
PathItems(p) ==
    /\ IsXml(p) => /\ Len(rd.sent) + rd.errors = 1
                   /\ rd.sent = IF p.opens THEN <<p.name>> ELSE <<>>
    /\ (IsZip(p) /\ ~p.opens) => (rd.sent = <<>> /\ rd.errors = 1)
    /\ (~IsXml(p) /\ ~IsZip(p)) => (rd.sent = <<>> /\ rd.errors = 0)

\* the worker was given one path and is through with it
OnePathDone == rd # Idle /\ rd.pc = "done" /\ Len(rd.input) = 1

(* C22 as stated  Recognition by extension only: ..., and inside an        *)
(* archive the entries that are neither xml nor zip are skipped without an *)
(* item: the items are those of the archive without these entries.         *)
C22_AsStated ==
    OnePathDone =>
        LET p == rd.input[1] IN
        /\ PathItems(p)
        /\ (IsZip(p) /\ p.opens) =>
              /\ rd.sent = ReadableIn(SelectSeq(p.entries, XmlOrZip))
              /\ rd.errors = FailingIn(SelectSeq(p.entries, XmlOrZip))

(* C22  Recognition by extension only: iter_xml_contents on a path with    *)
(* extension xml, in any letter case, yields exactly one item, the         *)
(* document or its read error; with extension zip the documents and entry  *)
(* errors of the archive, or exactly one error when the archive cannot be  *)
(* opened; with any other or no extension nothing.  Inside an archive the  *)
(* entries that can be opened and are neither xml nor zip are skipped      *)
(* without an item; an entry that cannot be opened is an error item        *)
(* whatever its name.                                                      *)
C22_ByExtension ==
    OnePathDone =>
        LET p == rd.input[1] IN
        /\ PathItems(p)
        /\ (IsZip(p) /\ p.opens) =>
              /\ rd.sent = ReadableIn(SelectSeq(p.entries, XmlOrZipOrCorrupt))
              /\ rd.errors = FailingIn(SelectSeq(p.entries, XmlOrZipOrCorrupt))
              /\ \A k \in 1..Len(p.entries) :
                    (NotXmlNorZip(p.entries[k]) /\ ~p.entries[k].index_ok) => rd.errors >= 1

\* an archive named in mixed case with a text file and a document named in
\* capitals
C22_Witness ==
    /\ OnePathDone
    /\ rd.input[1].ext = Some("Zip")
    /\ rd.sent = <<"a.xml">> /\ rd.errors = 0

\* a text file and a document named in capitals in an archive
C22_SkippedWitness ==
    /\ OnePathDone
    /\ rd.input[1] = ZipPath(<<OtherEntry, UpperXmlEntry>>)
    /\ rd.sent = <<"G.XML">> /\ rd.errors = 0


\* the element of this name in a parcel declaration, and its text
HasElem(fude, name) == \E k \in 1..Len(fude.entries) : fude.entries[k].name = name
TextOf(fude, name) ==
    LET entry == fude.entries[CHOOSE k \in 1..Len(fude.entries) :
                                 fude.entries[k].name = name]
    IN  IF IsSome(entry.text) THEN Get(entry.text) ELSE <<>>

\* the text is one or more decimal digits, with or without a sign "+"
Unsigned(t) == t # <<>> /\ \A k \in 1..Len(t) : IsDigit(t[k])
UnsignedText(t) == Unsigned(t) \/ (t # <<>> /\ t[1] = "+" /\ Unsigned(Tail(t)))

(* C23  Lenient numeric attributes: in every record of a parsed document a *)
(* numeric-coded attribute is absent when the parcel has no such element   *)
(* or its text is not an unsigned integer, and present when the text is a  *)
(* small unsigned integer; a document that differs from a valid one in the *)
(* texts of these attributes only parses, and its parcel is emitted.       *)
C23_LenientCodes ==
    /\ Parsed =>
          \A i \in 1..Len(Get(pp.result).val.features) :
              LET f == Get(pp.result).val.features[i]
                  fude == FudeNamed(pp.file_data.contents, f.fude_id)
              IN  \A n \in 1..Len(CodeNames) :
                      LET name == CodeNames[n] IN
                      /\ ~HasElem(fude, name) => f[name] = None
                      /\ (HasElem(fude, name) /\ ~UnsignedText(TextOf(fude, name)))
                            => f[name] = None
                      /\ (HasElem(fude, name) /\ Unsigned(TextOf(fude, name))
                            /\ Len(TextOf(fude, name)) < Len(U32MaxDigits))
                            => IsSome(f[name])
    /\ (pp # Idle /\ pp.pc # "call" /\ pp.file_data.contents \in CodedDocs) =>
          /\ IsOk(Get(pp.result))
          /\ Len(Get(pp.result).val.features) = 1

\* the parcel with the codes 12a and 007 is in the output, without the one
\* and with the other
C23_Witness ==
    /\ Parsed /\ pp.pc = "done" /\ Len(pp.out) = 1
    /\ pp.file_data.contents \in CodedDocs
    /\ HasElem(FudeNamed(pp.file_data.contents, "F1"), "oaza_code")
    /\ TextOf(FudeNamed(pp.file_data.contents, "F1"), "oaza_code") = <<"1", "2", "a">>
    /\ pp.out[1].oaza_code = None
    /\ pp.out[1].chome_code = Some(<<"7">>)


\* the fields of a record that are there for every record
RequiredFields == {"chizumei", "shikuchoson_code", "shikuchoson_mei", "zahyokei", "fude_id"}

(* C24  Null for absent values: in every record appended, over the        *)
(* columns declared at construction, a column has a value if and only if   *)
(* the record's field of that name is present, and then it is the field's  *)
(* value; the column of an absent field is null and nothing else.          *)
C24_NullForAbsent ==
    Parsed =>
        /\ Len(pp.rows) = Len(pp.out)
        /\ \A i \in 1..Len(pp.rows) :
              /\ DOMAIN pp.rows[i].props = 1..Len(Columns)
              /\ \A k \in 1..Len(Columns) :
                    LET field == pp.out[i][Columns[k]]
                        column == pp.rows[i].props[k]
                    IN  IF Columns[k] \in RequiredFields THEN column = Some(field)
                        ELSE /\ IsSome(column) <=> IsSome(field)
                             /\ column = field

\* a record with every optional field is in the output, and so is one with
\* no datum note and no codes
C24_Witness ==
    /\ Parsed /\ pp.pc = "done" /\ Len(pp.rows) = 1
    /\ \/ \A k \in 1..Len(Columns) : IsSome(pp.rows[1].props[k])
       \/ /\ pp.rows[1].props[5] = None /\ pp.rows[1].props[8] = None
          /\ pp.rows[1].props[16] # None

\* every column has a value, the empty text of an empty element included
C24_AllPresent ==
    /\ Parsed /\ pp.pc = "done" /\ Len(pp.rows) = 1
    /\ \A k \in 1..Len(Columns) : IsSome(pp.rows[1].props[k])
    /\ pp.rows[1].props[14] = Some(<<>>)


\* the outline writer has taken the document d from its queue in this step
OutlineTook(d) == Len(wlog'["outline"][d]) = Len(wlog["outline"][d]) + 1

\* what the outline writer logged for d in this step
OutlineEntry(d) == wlog'["outline"][d][Len(wlog'["outline"][d])]

(* C25  Outline errors are scoped to one document: whenever the outline    *)
(* writer takes a document, a document without parcels gives no outline    *)
(* record and any other document gives one record whose count is its       *)
(* number of parcels; in both cases the outline writer stays in its loop,  *)
(* the entries of the other documents stay as they are, and the main       *)
(* writer's output, flag, file and queue are untouched.                    *)
C25_OutlineErrorScoped ==
    [][\A d \in Docs :
          OutlineTook(d) =>
              /\ ParsedOk(d)
              /\ IF parseRes[d].n = 0
                 THEN OutlineEntry(d) = Skipped /\ UNCHANGED has_features
                 ELSE /\ OutlineEntry(d).n = 1
                      /\ OutlineEntry(d).count = parseRes[d].n
              /\ pc'[W("outline")] = "loop"
              /\ \A e \in Docs \ {d} : wlog'["outline"][e] = wlog["outline"][e]
              /\ UNCHANGED <<writerq, file, flushed>>
              /\ wlog'["fgb"] = wlog["fgb"]
              /\ has_features'["fgb"] = has_features["fgb"]]_vars

\* the outline of a document without parcels has failed, a later document has
\* its outline record, and the main writer has appended the records of both
C25_Witness ==
    \E d, e \in Docs :
        /\ d < e
        /\ ParsedOk(d) /\ parseRes[d].n = 0 /\ wlog["outline"][d] = <<Skipped>>
        /\ ParsedOk(e) /\ wlog["outline"][e] = <<Outlined(1, parseRes[e].n)>>
        /\ wlog["fgb"][d] = <<Appended(0, 0)>>
        /\ wlog["fgb"][e] = <<Appended(parseRes[e].n, parseRes[e].n)>>
        /\ mpc = "returned"


\* the coordinate a curve declares with the axes swapped, reprojected once
ReprojectedOnce(crs, declared) ==
    LET point == Get(proj_transform(crs, Pt(declared.y, declared.x)))
    IN  Pt(to_degrees(point.x), to_degrees(point.y))

\* every coordinate of the ring is the declared one, reprojected once
RingReprojected(ring, refs, root, crs) ==
    /\ Len(ring) >= Len(refs)
    /\ \A k \in 1..Len(refs) :
          ring[k] = ReprojectedOnce(crs, DeclaredPos(root, Get(refs[k])))

AllReprojected(crs) ==
    LET features == Get(pp.result).val.features
        root == pp.file_data.contents
    IN  \A i \in 1..Len(features) :
           LET polygon == PolygonOf(root, FudeNamed(root, features[i].fude_id))
               children == Flatten(polygon.interiors)
           IN  /\ RingReprojected(features[i].geometry.exterior, Get(polygon.exterior),
                                  root, crs)
               /\ \A m \in 1..Len(children) :
                     RingReprojected(features[i].geometry.interiors[m], children[m],
                                     root, crs)

(* C26  Stage order inside one document: of a document whose spatial       *)
(* attributes are read, the parse ends with the error of the first stage   *)
(* that fails, in the order points, curves, reprojection, surfaces,        *)
(* parcels; when the source system is known and the parse succeeds, every  *)
(* coordinate of every ring of every record is the declared coordinate     *)
(* reprojected exactly once.                                               *)
C26_StageOrder ==
    (pp # Idle /\ pp.pc # "call" /\ GeometryRead) =>
        LET root == pp.file_data.contents
            sp == Get(root.kukan_zokusei)
            crs == get_proj(Get(Get(root.zahyokei))).val
            points == parse_points(sp)
            curves == parse_curves(sp, points.val)
            result == Get(pp.result)
        IN  /\ ~IsOk(points) => result = Fail(points)
            /\ (IsOk(points) /\ ~IsOk(curves)) => result = Fail(curves)
            /\ (IsOk(points) /\ IsOk(curves) /\ ~Reprojects)
                  => result = Err("Projection", "transform")
            /\ (IsOk(points) /\ IsOk(curves) /\ Reprojects /\ MissingCurves(sp) # {})
                  => result.err = "PointNotFound"
            /\ (Parsed /\ IsSome(crs)) => AllReprojected(Get(crs))

\* two parcels of a document in a plane rectangular system are out, the first
\* with a hole, and the first corner of its ring is the reprojected one
C26_Witness ==
    /\ pp # Idle /\ pp.pc = "done" /\ GeometryRead
    /\ pp.file_data.contents.zahyokei = Elem("kokyo_zahyo_2_kei")
    /\ Len(pp.out) = 2
    /\ Len(pp.out[1].geometry.interiors) = 1
    /\ pp.out[1].geometry.exterior[2] =
          ReprojectedOnce(Get(get_proj("kokyo_zahyo_2_kei").val), Pt(6, 0))
    /\ pp.out[1].geometry.exterior[2] # Pt(0, 6)

\* the reprojection fails before the ring with the undeclared curve is read
C26_ProjectionFirst ==
    /\ pp # Idle /\ pp.pc = "err" /\ GeometryRead
    /\ Get(pp.file_data.contents.kukan_zokusei) = FarDanglingSpace
    /\ Get(pp.result) = Err("Projection", "transform")


\* how often the document has been handed to a writer: in its queue or taken
Delivered(w, d) ==
    Len(wlog[w][d]) + Cardinality(IF w = "fgb" THEN InWriterq(d) ELSE InOutlineq(d))

\* every copy of the document in a queue is the result its parse returned
SameResult(d) ==
    /\ \A k \in InWriterq(d) : writerq[k].n = parseRes[d].n
    /\ \A k \in InOutlineq(d) : outlineq[k].n = parseRes[d].n
    /\ \A k \in 1..Len(wlog["fgb"][d]) : wlog["fgb"][d][k].n = parseRes[d].n
    /\ \A k \in 1..Len(wlog["outline"][d]) :
          wlog["outline"][d][k].n = 1 => wlog["outline"][d][k].count = parseRes[d].n

C27_HandOff ==
    /\ \A d \in Docs :
          /\ Delivered("fgb", d) <= 1 /\ Delivered("outline", d) <= 1
          /\ SameResult(d)
          /\ (Delivered("fgb", d) + Delivered("outline", d) > 0) => ParsedOk(d)
          /\ (calculate_xml_outline /\ pc[W("outline")] # "panicked")
                => Delivered("fgb", d) <= Delivered("outline", d)
          /\ (mpc = "returned" /\ ParsedOk(d)) =>
                /\ Len(wlog["fgb"][d]) = 1
                /\ calculate_xml_outline => Len(wlog["outline"][d]) = 1
    /\ ~calculate_xml_outline =>
          /\ outlineq = <<>>
          /\ \A d \in Docs : wlog["outline"][d] = <<>>
          /\ pc[W("outline")] = "absent"
          /\ ~file["outline"] /\ flushed["outline"] = <<>> /\ ~has_features["outline"]

\* a parse worker that cannot complete its send waits for a consumer that can
\* take a step
C27_SendsComplete ==
    \A j \in XmlIds :
        /\ (mpc = "join" /\ pc[Xml(j)] = "send_outline" /\ ~ENABLED XmlSendOutline(j))
              => ENABLED OutlineWriter
        /\ (mpc = "join" /\ pc[Xml(j)] = "send_writer" /\ ~ENABLED XmlSendWriter(j))
              => ENABLED FgbWriter

\* a consumer with a result in its queue can take it whatever the parse
\* workers are doing
C27_ConsumersFree ==
    /\ (mpc = "join" /\ pc[W("fgb")] = "loop" /\ writerq # <<>>) => ENABLED WriterAppend
    /\ (mpc = "join" /\ pc[W("outline")] = "loop" /\ outlineq # <<>>) => ENABLED OutlineAppend

(* What holds of the hand-off in every run, with or without a panic: with *)
(* outline output requested, every document                                *)
(* is handed at most once to the writer and at most once to the outline    *)
(* writer, only after a successful parse, as the result the parse          *)
(* returned, to the outline writer first, and when process_files returns   *)
(* each successfully parsed document has been taken exactly once by both;  *)
(* a consumer with a result in its queue can always take it, and a parse   *)
(* worker that waits on a full queue waits for a consumer that can take a  *)
(* step; without outline output nothing enters the outline queue and       *)
(* there is no outline writer and no outline file.                         *)
C27_OutlineHandOff == C27_HandOff /\ C27_ConsumersFree /\ C27_SendsComplete

\* with outline output, both parse workers wait on the full outline queue
\* while the writer has a result to take
C27_Witness ==
    /\ calculate_xml_outline /\ mpc = "join"
    /\ \A j \in XmlIds : pc[Xml(j)] = "send_outline"
    /\ Len(outlineq) = OutlineCap
    /\ pc[W("fgb")] = "loop" /\ writerq # <<>>

\* a run with outline output returned with two parsed documents, each taken
\* once by the writer and once by the outline writer
C27_BothTaken ==
    /\ calculate_xml_outline /\ mpc = "returned"
    /\ \E d, e \in Docs :
          /\ d # e /\ ParsedOk(d) /\ ParsedOk(e)
          /\ Len(wlog["fgb"][d]) = 1 /\ Len(wlog["outline"][d]) = 1
          /\ Len(wlog["fgb"][e]) = 1 /\ Len(wlog["outline"][e]) = 1


(* C27  Outline hand-off: with outline output requested, once the run is   *)
(* over, and without a writer having failed, each successfully parsed      *)
(* document has been delivered exactly once to the writer and exactly once *)
(* to the outline writer.                                                  *)
C27_DeliveredToBoth ==
    (/\ calculate_xml_outline /\ mpc # "join"
     /\ \A w \in Writers : pc[W(w)] # "panicked") =>
        \A d \in Docs :
            ParsedOk(d) => Delivered("fgb", d) = 1 /\ Delivered("outline", d) = 1

\* the run is over by the panic of a parse worker, and a document another
\* worker had parsed went to the outline writer and never to the writer
C27_LostBeforeWriter ==
    /\ calculate_xml_outline /\ mpc = "panicked"
    /\ \A w \in Writers : pc[W(w)] # "panicked"
    /\ \E d \in Docs :
          ParsedOk(d) /\ Delivered("outline", d) = 1 /\ Delivered("fgb", d) = 0


(* C28  The writer's has-data flag counts only successful appends: a flush *)
(* that returns true follows at least one record appended without error,   *)
(* and after append attempts that all failed a flush that does not itself  *)
(* fail returns false and leaves no file, as after zero appends.           *)
C28_FlagCountsAppends ==
    \A w \in Writers :
        \A i \in 1..Len(flushed[w]) :
            /\ flushed[w][i].result = "true" => Accepted(w) > 0
            /\ (flushed[w][i].result # "err" /\ Accepted(w) = 0) =>
                  flushed[w][i].result = "false" /\ ~file[w]

\* the one append attempt of the run failed, and flush returned true and
\* left the file in place
C28_FileWithoutRecord ==
    /\ flushed["fgb"] # <<>> /\ flushed["fgb"][1].result = "true" /\ file["fgb"]
    /\ Offered("fgb") = 1 /\ Accepted("fgb") = 0


\* the documents read so far, and those parse_xml_content returned Ok for
DocsRead == {d \in Docs : d <= xml_files}
DocsParsedOk == {d \in Docs : ParsedOk(d)}

RECURSIVE LevelsOf(_)
LevelsOf(it) ==
    <<it>> \o (IF IsSome(it.nested) THEN LevelsOf(Get(it.nested)) ELSE <<>>)

\* nothing is left to yield: no nested iterator and the index at the end
Exhausted(it) == ~IsSome(it.nested) /\ it.index = Len(it.archive)

\* the entries of an archive and of the archives nested in it
RECURSIVE TreeSize(_)
TreeSize(entries) ==
    IF entries = <<>> THEN 0
    ELSE 1 + TreeSize(Head(entries).entries) + TreeSize(Tail(entries))

\* the entries the iterator has not passed yet, at this level and below
RECURSIVE Unvisited(_)
Unvisited(it) ==
    TreeSize(SubSeq(it.archive, it.index + 1, Len(it.archive)))
        + (IF IsSome(it.nested) THEN Unvisited(Get(it.nested)) ELSE 0)

\* what holds of the next call of next() on this iterator
NextCallOk(it) ==
    LET r == zip_next(it) IN
    \* the index stays within the archive and never goes back
    /\ it.index <= r.it.index /\ r.it.index <= Len(it.archive)
    /\ r.it.archive = it.archive
    \* a call that yields an item has passed at least one entry, at this level
    \* or below; without a nested iterator, at this level
    /\ IsSome(r.item) => Unvisited(r.it) < Unvisited(it)
    /\ (IsSome(r.item) /\ ~IsSome(it.nested)) => r.it.index > it.index
    \* a call that yields nothing has passed every entry that was left
    /\ ~IsSome(r.item) => r.it.index = Len(it.archive)
    \* after None the iterator is exhausted and the next call returns None again
    /\ ~IsSome(r.item) =>
          /\ Exhausted(r.it)
          /\ zip_next(r.it) = Yield(None, r.it)

\* the nested iterator is the one of the archive entry just passed
NestedOk(it) ==
    IsSome(it.nested) =>
        /\ it.index >= 1
        /\ lower_ext(it.archive[it.index]) = Some("zip")
        /\ Get(it.nested).archive = it.archive[it.index].entries

(* C30  The archive iterator terminates and stays exhausted: at every      *)
(* nesting level, a call of next that yields an item has moved an entry    *)
(* index on, and a call that yields none has moved the index to the end;   *)
(* the index never goes back and never passes the end, so every entry is   *)
(* visited at most once, also after an entry error or a skipped entry, and *)
(* the documents of a path are at most the entries passed; the one nested  *)
(* iterator of a level is that of the entry just passed; and after None    *)
(* every later call returns None.                                          *)
C30_IteratorTerminates ==
    (rd # Idle /\ IsSome(rd.iter.zip)) =>
        LET levels == LevelsOf(Get(rd.iter.zip)) IN
        /\ \A k \in 1..Len(levels) : NextCallOk(levels[k]) /\ NestedOk(levels[k])
        /\ rd.pc # "iter" => Exhausted(Get(rd.iter.zip))
        /\ rd.pc = "iter" =>
              Len(rd.sent) - Len(ReadableFrom(PathsDone)) + Unvisited(Get(rd.iter.zip))
                  <= TreeSize(PathAt.entries)

\* next has returned None for an archive of two entries, after an entry
\* error and a nested archive two levels deep
C30_Witness ==
    /\ rd # Idle /\ rd.pc = "recv" /\ IsSome(rd.iter.zip)
    /\ Exhausted(Get(rd.iter.zip))
    /\ Get(rd.iter.zip).archive = <<CorruptEntry, ZipEntry(DeepArchive)>>
    /\ rd.sent = <<"e.xml", "f.xml">> /\ rd.errors = 2

====
